---- MODULE Spec2Model ----
(***************************************************************************)
(* Model of the knowledge engine's ingestion and query pipeline            *)
(* (knowledge_engine/services/ingestion.py, services/query.py).            *)
(*                                                                         *)
(* Token counts are the integers the tokenizer returns.  Scores are kept   *)
(* in thousandths (0.50 is 500), and a mean is compared with a threshold   *)
(* in exact arithmetic: sum >= threshold * n.                              *)
(***************************************************************************)
EXTENDS Integers, Sequences, FiniteSets, TLC

\* ------------------------------------------------------------------------
\* Program constants (core/config.py)
\* ------------------------------------------------------------------------
CHUNK_TARGET_TOKENS == 1000
CHUNK_OVERLAP_TOKENS == 125
CHUNK_MAX_TOKENS == 1200
RETRIEVAL_TOP_K == 6
WEAK_MATCH_SCORE_THRESHOLD == 500

\* services/query.py
RERANK_FINAL_K == RETRIEVAL_TOP_K
NO_ANSWER == "ospecificerat i underlaget"
PREVIEW_CHARS == 300

\* the documented settings of EMBEDDING_PROVIDER
Providers == {"openai", "fulltext"}

\* ------------------------------------------------------------------------
\* Bounds of the model
\* ------------------------------------------------------------------------
MaxSentences == 4
MaxPage == 2
MaxCandidates == 7
MaxGate == 3
MaxRuns == 2
MaxBlocks == 2
MaxChars == 5
MaxPages == 2

\* ------------------------------------------------------------------------
\* Tokenizer: a sentence text is one of a few sample texts; the tokenizer
\* is a fixed function from the text to its token count.
\* ------------------------------------------------------------------------
TokenTable == <<50, 125, 126, 400, 1150, 1201>>

Texts == 1..Len(TokenTable)

_count_tokens(text) == TokenTable[text]

RECURSIVE SumTokens(_)
SumTokens(ss) ==
    IF ss = <<>> THEN 0
    ELSE _count_tokens(Head(ss).text) + SumTokens(Tail(ss))

RECURSIVE SumTexts(_)
SumTexts(ts) ==
    IF ts = <<>> THEN 0 ELSE _count_tokens(Head(ts)) + SumTexts(Tail(ts))

\* the sentences with texts ts on pages ps
SentencesFrom(ts, ps) == [i \in DOMAIN ts |-> [text |-> ts[i], page |-> ps[i]]]

\* a page map whose page numbers come in any order
IsSentenceSeq_any_order(ss, n) ==
    \E k \in 0..n : \E ts \in [1..k -> Texts] : \E ps \in [1..k -> 1..MaxPage] :
        ss = SentencesFrom(ts, ps)

\* ss is the sentence sequence of some page map of at most n sentences whose
\* page numbers do not decrease
IsSentenceSeq(ss, n) ==
    \E k \in 0..n : \E ts \in [1..k -> Texts] : \E ps \in [1..k -> 1..MaxPage] :
        /\ \A i \in 1..(k - 1) : ps[i] <= ps[i + 1]
        /\ ss = SentencesFrom(ts, ps)

VARIABLES
    page_map,           \* the pages of the extracted text, <<>> when not modelled
    sentences,          \* the (sentence, page) pairs of the document
    si,                 \* position of the for loop: index of the next sentence
    chunks,             \* the chunks appended so far
    current_tokens,
    current_sentences,
    chunk_index,
    overlap_sentences,  \* the sentences carried over at the last close
    carried,            \* history: per chunk, how many leading sentences were carried
    cpc,                \* "idle", "loop", "done"
    EMBEDDING_PROVIDER, \* the process-wide setting, fixed at start
    candidates,         \* the rows the retrieval returned
    reranked,
    confidence,         \* "none" until classified
    gate,               \* "none", "GROUNDABLE", "UNGROUNDABLE"
    qpc,                \* position of the query-side computation
    context,            \* <<>> until _build_context ran, then <<the context>>
    answer,
    citations,
    retrieved_chunks,
    llm_calls,          \* number of chat_completion calls issued
    knowledge_queries,      \* rows of the log table
    knowledge_query_chunks, \* rows of the log table
    response,           \* <<>> until process_query returned, then <<QueryResponse>>
    calls,              \* the collaborator calls process_query issued, in order
    ing,                \* per ingestion run: the locals of ingest_document
    embeddings_cache,   \* rows of the cache table, in insertion order
    knowledge_chunks,   \* rows of the chunk table
    embed_requests,     \* number of embedding requests issued
    uploads             \* per upload request: its position and what it wrote

chunkVars == <<page_map, sentences, si, chunks, current_tokens, current_sentences,
               chunk_index, overlap_sentences, carried, cpc>>

rankVars == <<EMBEDDING_PROVIDER, candidates, reranked, confidence, gate, qpc>>

answerVars == <<context, answer, citations, retrieved_chunks, llm_calls,
                knowledge_queries, knowledge_query_chunks, response>>

pipeVars == <<answerVars, calls>>

queryVars == <<rankVars, pipeVars>>

ingestVars == <<ing, embeddings_cache, knowledge_chunks, embed_requests, uploads>>

vars == <<chunkVars, rankVars, pipeVars, ingestVars>>

IdleChunk ==
    /\ page_map = <<>>
    /\ sentences = <<>>
    /\ si = 1
    /\ chunks = <<>>
    /\ current_tokens = 0
    /\ current_sentences = <<>>
    /\ chunk_index = 0
    /\ overlap_sentences = <<>>
    /\ carried = <<>>
    /\ cpc = "idle"

IdleRank ==
    /\ candidates = <<>>
    /\ reranked = <<>>
    /\ confidence = "none"
    /\ gate = "none"
    /\ qpc = "idle"

IdleRun ==
    [pc |-> "idle", chunks |-> <<>>, ci |-> 1, rows |-> <<>>,
     embedding |-> <<>>, error |-> "none", result |-> 0]

\* an upload request that has not begun: nothing stored, no document record
\* (status "none"), no link
NewUpload ==
    [pc |-> "new", collection_ids |-> <<>>, stored |-> FALSE,
     status |-> "none", links |-> <<>>]

IdleIngest ==
    /\ ing = [r \in 1..MaxRuns |-> IdleRun]
    /\ uploads = [r \in 1..MaxRuns |-> NewUpload]
    /\ embeddings_cache = <<>>
    /\ knowledge_chunks = {}
    /\ embed_requests = 0

IdlePipe ==
    /\ context = <<>>
    /\ answer = "unset"
    /\ citations = <<>>
    /\ retrieved_chunks = <<>>
    /\ llm_calls = 0
    /\ knowledge_queries = <<>>
    /\ knowledge_query_chunks = <<>>
    /\ response = <<>>
    /\ calls = <<>>

\* ------------------------------------------------------------------------
\* _split_into_chunks
\* ------------------------------------------------------------------------
MinOf(S) == CHOOSE x \in S : \A y \in S : x <= y
MaxOf(S) == CHOOSE x \in S : \A y \in S : x >= y

PagesOf(cs) == {cs[i].page : i \in 1..Len(cs)}

\* a chunk whose page_end is taken as the smallest page too
MakeChunk_min(cs, ct, idx) ==
    [chunk_index    |-> idx,
     content        |-> [i \in 1..Len(cs) |-> cs[i].text],
     content_tokens |-> ct,
     page_start     |-> MinOf(PagesOf(cs)),
     page_end       |-> MinOf(PagesOf(cs))]

\* chunks.append({...}) of lines 102-110 and 129-137; content is the join of
\* the sentence texts, kept as the sequence of the texts joined.
MakeChunk(cs, ct, idx) ==
    [chunk_index    |-> idx,
     content        |-> [i \in 1..Len(cs) |-> cs[i].text],
     content_tokens |-> ct,
     page_start     |-> MinOf(PagesOf(cs)),
     page_end       |-> MaxOf(PagesOf(cs))]

\* a closing test that also closes at exactly the maximum
MustClose_at_max(ct, sent_tokens, cs) ==
    ct + sent_tokens >= CHUNK_MAX_TOKENS /\ cs # <<>>

\* line 101
MustClose(ct, sent_tokens, cs) ==
    ct + sent_tokens > CHUNK_MAX_TOKENS /\ cs # <<>>

\* a walk that measures the carry-over against the chunk budget
OverlapFits_max(overlap_tokens, t) ==
    overlap_tokens + t <= CHUNK_MAX_TOKENS

\* line 117
OverlapFits(overlap_tokens, t) ==
    overlap_tokens + t <= CHUNK_OVERLAP_TOKENS

\* an index that is not advanced
NextIndex_stuck(idx) == idx

\* line 111
NextIndex(idx) == idx + 1

\* lines 113-121: walk the closed accumulator backwards from position k
RECURSIVE OverlapWalk(_, _, _)
OverlapWalk(cs, k, acc) ==
    IF k = 0 THEN acc
    ELSE LET t == _count_tokens(cs[k].text)
         IN  IF OverlapFits(acc.tokens, t)
             THEN OverlapWalk(cs, k - 1,
                              [sents  |-> <<cs[k]>> \o acc.sents,
                               tokens |-> acc.tokens + t])
             ELSE acc

\* a walk that carries at most the last sentence
ComputeOverlap_one(cs) ==
    LET t == _count_tokens(cs[Len(cs)].text)
    IN  IF OverlapFits(0, t)
        THEN [sents |-> <<cs[Len(cs)]>>, tokens |-> t]
        ELSE [sents |-> <<>>, tokens |-> 0]

\* lines 113-123: the walk over the whole closed accumulator
ComputeOverlap(cs) == OverlapWalk(cs, Len(cs), [sents |-> <<>>, tokens |-> 0])

\* The state of one pass: the locals of _split_into_chunks.
ChunkState0 ==
    [chunks |-> <<>>, current_tokens |-> 0, current_sentences |-> <<>>,
     chunk_index |-> 0, overlap_sentences |-> <<>>, carried |-> <<>>]

\* an iteration that appends the sentence only when no chunk is closed
LoopBody_else(st, sent) ==
    LET sent_tokens == _count_tokens(sent.text)
    IN  IF MustClose(st.current_tokens, sent_tokens, st.current_sentences)
        THEN LET ov == ComputeOverlap(st.current_sentences)
             IN  [chunks |-> Append(st.chunks,
                                    MakeChunk(st.current_sentences,
                                              st.current_tokens, st.chunk_index)),
                  carried |-> Append(st.carried, Len(st.overlap_sentences)),
                  chunk_index |-> NextIndex(st.chunk_index),
                  overlap_sentences |-> ov.sents,
                  current_sentences |-> ov.sents,
                  current_tokens |-> ov.tokens]
        ELSE [st EXCEPT !.current_sentences = Append(@, sent),
                        !.current_tokens = @ + sent_tokens]

\* lines 98-126: one iteration of the for loop
LoopBody(st, sent) ==
    LET sent_tokens == _count_tokens(sent.text)
    IN  IF MustClose(st.current_tokens, sent_tokens, st.current_sentences)
        THEN LET ov == ComputeOverlap(st.current_sentences)
             IN  [chunks |-> Append(st.chunks,
                                    MakeChunk(st.current_sentences,
                                              st.current_tokens, st.chunk_index)),
                  carried |-> Append(st.carried, Len(st.overlap_sentences)),
                  chunk_index |-> NextIndex(st.chunk_index),
                  overlap_sentences |-> ov.sents,
                  current_sentences |-> Append(ov.sents, sent),
                  current_tokens |-> ov.tokens + sent_tokens]
        ELSE [st EXCEPT !.current_sentences = Append(@, sent),
                        !.current_tokens = @ + sent_tokens]

\* a final flush that appends a chunk also when nothing is accumulated
FinalFlush_always(st) ==
    [st EXCEPT !.chunks = Append(@, [chunk_index    |-> st.chunk_index,
                                     content        |-> [i \in 1..Len(st.current_sentences) |->
                                                            st.current_sentences[i].text],
                                     content_tokens |-> st.current_tokens,
                                     page_start     |-> 1,
                                     page_end       |-> 1]),
               !.carried = Append(@, Len(st.overlap_sentences))]

\* lines 128-139: the final flush
FinalFlush(st) ==
    IF st.current_sentences # <<>>
    THEN [st EXCEPT !.chunks = Append(@, MakeChunk(st.current_sentences,
                                                  st.current_tokens, st.chunk_index)),
                    !.carried = Append(@, Len(st.overlap_sentences))]
    ELSE st

RECURSIVE RunLoop(_, _)
RunLoop(st, ss) ==
    IF ss = <<>> THEN st ELSE RunLoop(LoopBody(st, Head(ss)), Tail(ss))

\* the whole function, as ingest_document calls it
_split_into_chunks(ss) == FinalFlush(RunLoop(ChunkState0, ss)).chunks

ChunkStateNow ==
    [chunks |-> chunks, current_tokens |-> current_tokens,
     current_sentences |-> current_sentences, chunk_index |-> chunk_index,
     overlap_sentences |-> overlap_sentences, carried |-> carried]

SetChunkState(st) ==
    /\ chunks' = st.chunks
    /\ current_tokens' = st.current_tokens
    /\ current_sentences' = st.current_sentences
    /\ chunk_index' = st.chunk_index
    /\ overlap_sentences' = st.overlap_sentences
    /\ carried' = st.carried

InitChunk ==
    /\ page_map = <<>>
    /\ IsSentenceSeq(sentences, MaxSentences)
    /\ si = 1
    /\ chunks = <<>>
    /\ current_tokens = 0
    /\ current_sentences = <<>>
    /\ chunk_index = 0
    /\ overlap_sentences = <<>>
    /\ carried = <<>>
    /\ cpc = "loop"
    /\ EMBEDDING_PROVIDER = "openai"
    /\ IdleRank
    /\ IdlePipe
    /\ IdleIngest

\* one iteration that closes the current chunk before taking the sentence
ChunkClose ==
    /\ cpc = "loop"
    /\ si <= Len(sentences)
    /\ MustClose(current_tokens, _count_tokens(sentences[si].text), current_sentences)
    /\ SetChunkState(LoopBody(ChunkStateNow, sentences[si]))
    /\ si' = si + 1
    /\ UNCHANGED <<page_map, sentences, cpc, queryVars, ingestVars>>

\* one iteration that only appends the sentence
ChunkAppend ==
    /\ cpc = "loop"
    /\ si <= Len(sentences)
    /\ ~MustClose(current_tokens, _count_tokens(sentences[si].text), current_sentences)
    /\ SetChunkState(LoopBody(ChunkStateNow, sentences[si]))
    /\ si' = si + 1
    /\ UNCHANGED <<page_map, sentences, cpc, queryVars, ingestVars>>

\* after the loop
ChunkFinish ==
    /\ cpc = "loop"
    /\ si > Len(sentences)
    /\ SetChunkState(FinalFlush(ChunkStateNow))
    /\ cpc' = "done"
    /\ UNCHANGED <<page_map, sentences, si, queryVars, ingestVars>>

NextChunk == ChunkClose \/ ChunkAppend \/ ChunkFinish

SpecChunk == InitChunk /\ [][NextChunk]_vars

\* ------------------------------------------------------------------------
\* The sentence segmentation of _split_into_chunks (lines 85-91)
\* ------------------------------------------------------------------------
\* A page text is a sequence of characters: a letter, the sentence-terminal
\* marks and whitespace.
Characters == <<"a", ".", "?", " ">>

IsTerminal(ch) == ch \in {".", "!", "?"}

IsSpace(ch) == ch \in {" ", "\t", "\n", "\r"}

\* the document text cut into pages after the positions cuts[1] <= cuts[2] ...
PagesFrom(text, cuts) ==
    [i \in 1..(Len(cuts) + 1) |->
        [page |-> i,
         text |-> SubSeq(text, IF i = 1 THEN 1 ELSE cuts[i - 1] + 1,
                         IF i = Len(cuts) + 1 THEN Len(text) ELSE cuts[i])]]

\* pm is a page map of at most p pages with at most n characters in all
IsPageMap(pm, n, p) ==
    \/ pm = <<>>
    \/ \E k \in 0..n : \E f \in [1..k -> 1..Len(Characters)] :
          \E c \in 0..(p - 1) : \E cuts \in [1..c -> 0..k] :
            /\ \A i \in 1..(c - 1) : cuts[i] <= cuts[i + 1]
            /\ pm = PagesFrom([i \in 1..k |-> Characters[f[i]]], cuts)

\* a pattern that matches any run of whitespace
SplitsAt_any_space(text, i) ==
    /\ IsSpace(text[i])
    /\ IF i = 1 THEN TRUE ELSE ~IsSpace(text[i - 1])

\* (?<=[.!?])\s+ matches at position i: a whitespace character right after
\* a sentence-terminal mark
SplitsAt(text, i) ==
    /\ IsSpace(text[i])
    /\ IF i = 1 THEN FALSE ELSE IsTerminal(text[i - 1])

\* the first position from i on that is not whitespace: the end of \s+
RECURSIVE SkipSpace(_, _)
SkipSpace(text, i) ==
    IF i <= Len(text) /\ IsSpace(text[i]) THEN SkipSpace(text, i + 1) ELSE i

\* re.split: the pieces between the matches, scanning from position i with
\* the piece cur under construction
RECURSIVE SplitFrom(_, _, _, _)
SplitFrom(text, i, cur, acc) ==
    IF i > Len(text) THEN Append(acc, cur)
    ELSE IF SplitsAt(text, i)
         THEN SplitFrom(text, SkipSpace(text, i), <<>>, Append(acc, cur))
         ELSE SplitFrom(text, i + 1, Append(cur, text[i]), acc)

re_split(text) == SplitFrom(text, 1, <<>>, <<>>)

\* str.strip()
RECURSIVE LStrip(_)
LStrip(str) ==
    IF str # <<>> /\ IsSpace(Head(str)) THEN LStrip(Tail(str)) ELSE str

RECURSIVE RStrip(_)
RStrip(str) ==
    IF str # <<>> /\ IsSpace(str[Len(str)])
    THEN RStrip(SubSeq(str, 1, Len(str) - 1))
    ELSE str

Strip(str) == RStrip(LStrip(str))

\* lines 87-91: the sentences of one page
RECURSIVE KeepSentences(_, _)
KeepSentences(pieces, page_num) ==
    IF pieces = <<>> THEN <<>>
    ELSE LET sent == Strip(Head(pieces))
         IN  (IF sent # <<>> THEN <<[text |-> sent, page |-> page_num]>>
              ELSE <<>>)
             \o KeepSentences(Tail(pieces), page_num)

PageSentences(page_info) ==
    KeepSentences(re_split(page_info.text), page_info.page)

InitSegment ==
    /\ IsPageMap(page_map, MaxChars, MaxPages)
    /\ sentences = <<>>
    /\ si = 1
    /\ chunks = <<>>
    /\ current_tokens = 0
    /\ current_sentences = <<>>
    /\ chunk_index = 0
    /\ overlap_sentences = <<>>
    /\ carried = <<>>
    /\ cpc = "segment"
    /\ EMBEDDING_PROVIDER = "openai"
    /\ IdleRank
    /\ IdlePipe
    /\ IdleIngest

\* lines 86-91: one iteration of the loop over the pages
SegmentPage ==
    /\ cpc = "segment"
    /\ si <= Len(page_map)
    /\ sentences' = sentences \o PageSentences(page_map[si])
    /\ si' = si + 1
    /\ UNCHANGED <<page_map, chunks, current_tokens, current_sentences,
                   chunk_index, overlap_sentences, carried, cpc, queryVars,
                   ingestVars>>

\* line 93: the loop over the pages is over
SegmentDone ==
    /\ cpc = "segment"
    /\ si > Len(page_map)
    /\ cpc' = "segmented"
    /\ UNCHANGED <<page_map, sentences, si, chunks, current_tokens,
                   current_sentences, chunk_index, overlap_sentences, carried,
                   queryVars, ingestVars>>

NextSegment == SegmentPage \/ SegmentDone

SpecSegment == InitSegment /\ [][NextSegment]_vars

\* ------------------------------------------------------------------------
\* Query side: candidates, _rerank, _determine_confidence, _is_weak_match
\* ------------------------------------------------------------------------
\* Sample scores in thousandths, per retrieval method (cosine similarity,
\* BM25 rank).
SemanticScores == <<400, 500, 1000>>
LexicalScores == <<5, 10, 190>>

ScoreTable(provider) ==
    IF provider = "fulltext" THEN LexicalScores ELSE SemanticScores

\* A candidate row is a dict; chunk_id is its position in the retrieval
\* result, and the score key may be missing (choice 0).
CandidateRow(i, choice, provider) ==
    IF choice = 0 THEN [chunk_id |-> i]
    ELSE [chunk_id |-> i, score |-> ScoreTable(provider)[choice]]

\* the retrieval result whose i-th row has the score of choice f[i]
CandidatesFrom(f, provider) ==
    [i \in DOMAIN f |-> CandidateRow(i, f[i], provider)]

\* cs is some retrieval result of at most n rows
IsRetrievalResult(cs, provider, n) ==
    \E k \in 0..n : \E f \in [1..k -> 0..Len(ScoreTable(provider))] :
        cs = CandidatesFrom(f, provider)

\* c.get("score", 0)
Score(c) == IF "score" \in DOMAIN c THEN c.score ELSE 0

RECURSIVE SumScores(_)
SumScores(cs) == IF cs = <<>> THEN 0 ELSE Score(Head(cs)) + SumScores(Tail(cs))

\* a comparison that lets a later row overtake an earlier row of equal score
KeepsAhead_strict(a, c) == Score(a) > Score(c)

\* sorted(..., reverse=True) is stable: a row already placed stays ahead of a
\* later row unless the later row has the greater key
KeepsAhead(a, c) == Score(a) >= Score(c)

\* position at which c enters the rows sorted so far
RECURSIVE InsertPos(_, _, _)
InsertPos(sorted, c, k) ==
    IF k > Len(sorted) THEN k
    ELSE IF KeepsAhead(sorted[k], c) THEN InsertPos(sorted, c, k + 1)
    ELSE k

InsertSorted(sorted, c) ==
    LET k == InsertPos(sorted, c, 1)
    IN  SubSeq(sorted, 1, k - 1) \o <<c>> \o SubSeq(sorted, k, Len(sorted))

RECURSIVE SortedDesc(_, _)
SortedDesc(cs, acc) ==
    IF cs = <<>> THEN acc ELSE SortedDesc(Tail(cs), InsertSorted(acc, Head(cs)))

\* sorted_candidates[:RERANK_FINAL_K]
Truncate(cs, k) == SubSeq(cs, 1, IF Len(cs) < k THEN Len(cs) ELSE k)

_rerank(cs) == Truncate(SortedDesc(cs, <<>>), RERANK_FINAL_K)

\* a medium threshold of the semantic strategy below the max-score floor
MediumThreshold_low(provider) == IF provider = "fulltext" THEN 10 ELSE 400

\* thresholds of _determine_confidence, in thousandths
HighThreshold(provider) == IF provider = "fulltext" THEN 100 ELSE 750
MediumThreshold(provider) == IF provider = "fulltext" THEN 10 ELSE 500

\* a comparison that excludes the threshold itself
AvgAtLeast_strict(cs, t) == SumScores(cs) > t * Len(cs)

\* avg_score >= t, with avg_score = sum / len
AvgAtLeast(cs, t) == SumScores(cs) >= t * Len(cs)

_determine_confidence(cs, provider) ==
    IF cs = <<>> THEN "low"
    ELSE IF AvgAtLeast(cs, HighThreshold(provider)) THEN "high"
    ELSE IF AvgAtLeast(cs, MediumThreshold(provider)) THEN "medium"
    ELSE "low"

\* max(c.get("score", 0) for c in reranked), for a non-empty list
MaxScore(cs) == MaxOf({Score(cs[i]) : i \in 1..Len(cs)})

\* a gate without the max-score floor
BelowFloor_never(cs, provider) == FALSE

\* lines 176-179
BelowFloor(cs, provider) ==
    provider = "openai" /\ MaxScore(cs) < WEAK_MATCH_SCORE_THRESHOLD

_is_weak_match(cs, conf, provider) ==
    IF conf = "low" THEN TRUE
    ELSE IF cs = <<>> THEN TRUE
    ELSE BelowFloor(cs, provider)

\* the condition of process_query, line 314
Ungroundable(cs, conf, provider) ==
    cs = <<>> \/ _is_weak_match(cs, conf, provider)

\* the two terminal outcomes of the gate
GateOutcome(is_weak) == IF is_weak THEN "UNGROUNDABLE" ELSE "GROUNDABLE"

\* --- the ranking functions applied to an arbitrary retrieval result -------
InitRank ==
    /\ IdleChunk
    /\ EMBEDDING_PROVIDER \in Providers
    /\ IsRetrievalResult(candidates, EMBEDDING_PROVIDER, MaxCandidates)
    /\ reranked = <<>>
    /\ confidence = "none"
    /\ gate = "none"
    /\ qpc = "rank"
    /\ IdlePipe
    /\ IdleIngest

RerankApply ==
    /\ qpc = "rank"
    /\ reranked' = _rerank(candidates)
    /\ qpc' = "classify"
    /\ UNCHANGED <<chunkVars, ingestVars, pipeVars, EMBEDDING_PROVIDER, candidates, confidence, gate>>

ConfidenceApply ==
    /\ qpc = "classify"
    /\ confidence' = _determine_confidence(reranked, EMBEDDING_PROVIDER)
    /\ qpc' = "classified"
    /\ UNCHANGED <<chunkVars, ingestVars, pipeVars, EMBEDDING_PROVIDER, candidates, reranked, gate>>

NextRank == RerankApply \/ ConfidenceApply

SpecRank == InitRank /\ [][NextRank]_vars

\* --- the gate applied to an arbitrary reranked set and label -------------
Labels == {"high", "medium", "low"}

InitGate ==
    /\ IdleChunk
    /\ EMBEDDING_PROVIDER \in Providers
    /\ candidates = <<>>
    /\ IsRetrievalResult(reranked, EMBEDDING_PROVIDER, MaxGate)
    /\ confidence \in Labels
    /\ gate = "none"
    /\ qpc = "gate"
    /\ IdlePipe
    /\ IdleIngest

GateApply ==
    /\ qpc = "gate"
    /\ gate' = GateOutcome(Ungroundable(reranked, confidence, EMBEDDING_PROVIDER))
    /\ qpc' = "gated"
    /\ UNCHANGED <<chunkVars, ingestVars, pipeVars, EMBEDDING_PROVIDER, candidates, reranked, confidence>>

NextGate == GateApply

SpecGate == InitGate /\ [][NextGate]_vars

\* ------------------------------------------------------------------------
\* process_query
\* ------------------------------------------------------------------------
\* what chat_completion may return
AnswerTexts == {"generated answer", NO_ANSWER}

\* _build_context, by the chunks it has a block for: one block per chunk,
\* labelled from 1 (the text of the context is _build_context below)
ContextOutline(cs) ==
    [i \in 1..Len(cs) |-> [index |-> i, chunk_id |-> cs[i].chunk_id]]

\* lines 329-341
BuildCitations(cs) == [i \in 1..Len(cs) |-> [chunk_id |-> cs[i].chunk_id]]

\* lines 344-357
BuildRetrieved(cs) ==
    [i \in 1..Len(cs) |->
        [chunk_id |-> cs[i].chunk_id, score |-> Score(cs[i]), rank |-> i]]

\* a call of a collaborator: the client it goes through, the operation, and
\* whether it raised
Call(via, op) == [via |-> via, op |-> op, raised |-> FALSE]

Raise(call) == [call EXCEPT !.raised = TRUE]

\* the calls cs, the last of which raised
RaisedAtEnd(cs) == [cs EXCEPT ![Len(cs)] = Raise(@)]

\* line 299: the id of the query, str(uuid4())
query_id == "uuid4-1"

\* _log_query, lines 252-262: the knowledge_queries row
QueryRow(ans, cits, conf) ==
    [id |-> query_id, answer |-> ans, answer_citations |-> cits,
     confidence |-> conf]

\* association rows ranked from 0
ChunkRows_zero_based(cs) ==
    [i \in 1..Len(cs) |->
        [query_id |-> query_id, chunk_id |-> cs[i].chunk_id, rank |-> i - 1,
         score |-> Score(cs[i])]]

\* _log_query, lines 265-275: the knowledge_query_chunks rows
ChunkRows(cs) ==
    [i \in 1..Len(cs) |->
        [query_id |-> query_id, chunk_id |-> cs[i].chunk_id, rank |-> i,
         score |-> Score(cs[i])]]

\* where _log_query raises, if it does: at get_admin_supabase, at the insert
\* of the query row, at the insert of the association rows
LogOutcomes == {"ok", "client", "queries", "chunks"}

\* lines 249-275: the calls _log_query issues until it returns or raises;
\* the association rows are inserted only for a non-empty rerank
LogCallsIssued(outcome, rr) ==
    IF outcome = "client"
    THEN <<Call("admin", "get_admin_supabase")>>
    ELSE IF outcome = "queries" \/ rr = <<>>
    THEN <<Call("admin", "get_admin_supabase"),
           Call("admin", "insert knowledge_queries")>>
    ELSE <<Call("admin", "get_admin_supabase"),
           Call("admin", "insert knowledge_queries"),
           Call("admin", "insert knowledge_query_chunks")>>

LogCalls(outcome, rr) ==
    IF outcome = "ok" THEN LogCallsIssued(outcome, rr)
    ELSE RaisedAtEnd(LogCallsIssued(outcome, rr))

\* lines 375-382
QueryResponse(ans, cits, rcs, conf) ==
    [query_id |-> query_id, answer |-> ans, citations |-> cits,
     retrieved_chunks |-> rcs, confidence |-> conf]

InitQuery ==
    /\ IdleChunk
    /\ EMBEDDING_PROVIDER \in Providers
    /\ candidates = <<>>
    /\ reranked = <<>>
    /\ confidence = "none"
    /\ gate = "none"
    /\ qpc = "start"
    /\ IdlePipe
    /\ IdleIngest

\* a retrieval that issues its RPC through the service-role client
RetrievalCalls_admin(provider) ==
    IF provider = "fulltext"
    THEN <<Call("admin", "rpc search_knowledge_chunks_fulltext")>>
    ELSE <<Call("embedder", "embed_query"),
           Call("admin", "rpc match_knowledge_chunks")>>

\* a retrieval router that embeds the question whatever the provider is
RetrievalCalls_vector(provider) ==
    <<Call("embedder", "embed_query"),
      Call("user_jwt", "rpc match_knowledge_chunks")>>

\* lines 79-147: _retrieve_candidates routes to _retrieve_fulltext (one RPC
\* through the client of the caller's JWT) or to _retrieve_vector (the
\* question is embedded, then one RPC through the client of the caller's JWT)
RetrievalCalls(provider) ==
    IF provider = "fulltext"
    THEN <<Call("user_jwt", "rpc search_knowledge_chunks_fulltext")>>
    ELSE <<Call("embedder", "embed_query"),
           Call("user_jwt", "rpc match_knowledge_chunks")>>

\* line 305: the retrieval returned its rows (result.data, or the empty list
\* when the result has no data)
QueryRetrieve ==
    /\ qpc = "start"
    /\ \E k \in 0..MaxCandidates :
         \E f \in [1..k -> 0..Len(ScoreTable(EMBEDDING_PROVIDER))] :
            candidates' = CandidatesFrom(f, EMBEDDING_PROVIDER)
    /\ calls' = calls \o RetrievalCalls(EMBEDDING_PROVIDER)
    /\ qpc' = "retrieved"
    /\ UNCHANGED <<chunkVars, ingestVars, answerVars, EMBEDDING_PROVIDER, reranked, confidence, gate>>

\* line 305: the question embedding or the RPC raised
QueryRetrieveFail ==
    /\ qpc = "start"
    /\ \E n \in 1..Len(RetrievalCalls(EMBEDDING_PROVIDER)) :
         calls' = calls \o
            RaisedAtEnd(SubSeq(RetrievalCalls(EMBEDDING_PROVIDER), 1, n))
    /\ qpc' = "failed"
    /\ UNCHANGED <<chunkVars, ingestVars, answerVars, EMBEDDING_PROVIDER, candidates, reranked,
                   confidence, gate>>

\* a pipeline that builds the context and calls the model before it looks at
\* the gate
QueryShortCircuit_late ==
    /\ qpc = "retrieved"
    /\ LET r == _rerank(candidates)
           conf == _determine_confidence(r, EMBEDDING_PROVIDER)
       IN  /\ Ungroundable(r, conf, EMBEDDING_PROVIDER)
           /\ reranked' = r
           /\ confidence' = conf
           /\ gate' = "UNGROUNDABLE"
           /\ context' = <<ContextOutline(r)>>
           /\ llm_calls' = llm_calls + 1
           /\ calls' = Append(calls, Call("llm", "chat_completion"))
    /\ answer' = NO_ANSWER
    /\ citations' = <<>>
    /\ retrieved_chunks' = <<>>
    /\ qpc' = "log"
    /\ UNCHANGED <<chunkVars, ingestVars, EMBEDDING_PROVIDER, candidates,
                   knowledge_queries, knowledge_query_chunks, response>>

\* lines 308-317: rerank, classify, gate says UNGROUNDABLE
QueryShortCircuit ==
    /\ qpc = "retrieved"
    /\ LET r == _rerank(candidates)
           conf == _determine_confidence(r, EMBEDDING_PROVIDER)
       IN  /\ Ungroundable(r, conf, EMBEDDING_PROVIDER)
           /\ reranked' = r
           /\ confidence' = conf
           /\ gate' = "UNGROUNDABLE"
    /\ answer' = NO_ANSWER
    /\ citations' = <<>>
    /\ retrieved_chunks' = <<>>
    /\ qpc' = "log"
    /\ UNCHANGED <<chunkVars, ingestVars, EMBEDDING_PROVIDER, candidates, context, llm_calls,
                   knowledge_queries, knowledge_query_chunks, response, calls>>

\* lines 308-326: rerank, classify, gate says GROUNDABLE; the context is
\* built and chat_completion is called
QueryBuildContext ==
    /\ qpc = "retrieved"
    /\ LET r == _rerank(candidates)
           conf == _determine_confidence(r, EMBEDDING_PROVIDER)
       IN  /\ ~Ungroundable(r, conf, EMBEDDING_PROVIDER)
           /\ reranked' = r
           /\ confidence' = conf
           /\ gate' = "GROUNDABLE"
           /\ context' = <<ContextOutline(r)>>
    /\ llm_calls' = llm_calls + 1
    /\ calls' = Append(calls, Call("llm", "chat_completion"))
    /\ qpc' = "generate"
    /\ UNCHANGED <<chunkVars, ingestVars, EMBEDDING_PROVIDER, candidates, answer, citations,
                   retrieved_chunks, knowledge_queries, knowledge_query_chunks,
                   response>>

\* lines 326-357: chat_completion returned
QueryGenerate ==
    /\ qpc = "generate"
    /\ \E text \in AnswerTexts : answer' = text
    /\ citations' = BuildCitations(reranked)
    /\ retrieved_chunks' = BuildRetrieved(reranked)
    /\ qpc' = "log"
    /\ UNCHANGED <<chunkVars, ingestVars, EMBEDDING_PROVIDER, candidates, reranked, confidence,
                   gate, context, llm_calls, knowledge_queries,
                   knowledge_query_chunks, response, calls>>

\* a failure of chat_completion that is logged before it is passed on
QueryGenerateFail_logged ==
    /\ qpc = "generate"
    /\ calls' = RaisedAtEnd(calls) \o LogCalls("ok", <<>>)
    /\ knowledge_queries' = Append(knowledge_queries,
                                   QueryRow(answer, citations, confidence))
    /\ qpc' = "failed"
    /\ UNCHANGED <<chunkVars, ingestVars, EMBEDDING_PROVIDER, candidates, reranked,
                   confidence, gate, context, answer, citations,
                   retrieved_chunks, llm_calls, knowledge_query_chunks,
                   response>>

\* line 326: chat_completion raised
QueryGenerateFail ==
    /\ qpc = "generate"
    /\ calls' = RaisedAtEnd(calls)
    /\ qpc' = "failed"
    /\ UNCHANGED <<chunkVars, ingestVars, answerVars, EMBEDDING_PROVIDER, candidates, reranked,
                   confidence, gate>>

\* lines 248-275: the writes of _log_query up to the point it returns or
\* raises
LogWrites(outcome) ==
    /\ outcome = "chunks" => reranked # <<>>
    /\ knowledge_queries' =
         IF outcome \in {"ok", "chunks"}
         THEN Append(knowledge_queries, QueryRow(answer, citations, confidence))
         ELSE knowledge_queries
    /\ knowledge_query_chunks' =
         IF outcome = "ok" /\ reranked # <<>>
         THEN knowledge_query_chunks \o ChunkRows(reranked)
         ELSE knowledge_query_chunks
    /\ calls' = calls \o LogCalls(outcome, reranked)

\* a _log_query without the try/except: what it raises ends the request
QueryLog_raise ==
    /\ qpc = "log"
    /\ \E outcome \in LogOutcomes :
         /\ LogWrites(outcome)
         /\ IF outcome = "ok"
            THEN /\ response' = <<QueryResponse(answer, citations,
                                                retrieved_chunks, confidence)>>
                 /\ qpc' = "done"
            ELSE /\ response' = response
                 /\ qpc' = "failed"
    /\ UNCHANGED <<chunkVars, ingestVars, EMBEDDING_PROVIDER, candidates, reranked, confidence,
                   gate, context, answer, citations, retrieved_chunks, llm_calls>>

\* lines 359-382: _log_query (best effort: what it raises is caught and
\* logged as a warning) and the return
QueryLog ==
    /\ qpc = "log"
    /\ \E outcome \in LogOutcomes : LogWrites(outcome)
    /\ response' = <<QueryResponse(answer, citations, retrieved_chunks,
                                   confidence)>>
    /\ qpc' = "done"
    /\ UNCHANGED <<chunkVars, ingestVars, EMBEDDING_PROVIDER, candidates, reranked, confidence,
                   gate, context, answer, citations, retrieved_chunks, llm_calls>>

NextQuery ==
    \/ QueryRetrieve
    \/ QueryRetrieveFail
    \/ QueryShortCircuit
    \/ QueryBuildContext
    \/ QueryGenerate
    \/ QueryGenerateFail
    \/ QueryLog

SpecQuery == InitQuery /\ [][NextQuery]_vars

\* ------------------------------------------------------------------------
\* The context, the citations and the retrieved chunks of a reranked list,
\* with the rows as the retrieval RPC returns them
\* ------------------------------------------------------------------------
\* A string is the sequence of its pieces; a chunk content is a sequence of
\* characters.
Alphabet == <<"a", "b", "c">>

Text(n) == [k \in 1..n |-> Alphabet[(k % 3) + 1]]

ContentLengths == <<1, 299, 300, 301>>

\* what the row has of page_start and page_end
PageShapes == <<"none", "start", "same", "range">>

PageKeys(shape) ==
    IF shape = "start" THEN [page_start |-> 1]
    ELSE IF shape = "same" THEN [page_start |-> 2, page_end |-> 2]
    ELSE [page_start |-> 1, page_end |-> 2]

\* a row of the reranked list: the odd chunks have a document_version
RichRow(i, len, shape) ==
    LET base == [chunk_id |-> i, document_id |-> 1,
                 document_title |-> "title", content |-> Text(len),
                 score |-> 1000 - 100 * i]
        versioned == IF i % 2 = 1 THEN base @@ [document_version |-> 3]
                     ELSE base
    IN  IF shape = "none" THEN versioned ELSE versioned @@ PageKeys(shape)

IsRerankedList(cs, n) ==
    \E k \in 1..n :
        \E f \in [1..k -> (1..Len(ContentLengths)) \X (1..Len(PageShapes))] :
            cs = [i \in 1..k |->
                    RichRow(i, ContentLengths[f[i][1]], PageShapes[f[i][2]])]

\* c.get(key): <<>> for None
Get(c, key) == IF key \in DOMAIN c THEN <<c[key]>> ELSE <<>>

\* the truth value of an optional number
Truthy(opt) == opt # <<>> /\ opt[1] # 0

\* a slice that takes the last n characters
Slice_tail(str, n) ==
    SubSeq(str, IF Len(str) < n THEN 1 ELSE Len(str) - n + 1, Len(str))

\* str[:n]
Slice(str, n) == SubSeq(str, 1, IF Len(str) < n THEN Len(str) ELSE n)

\* lines 330-339
CitationItem(c) ==
    [chunk_id |-> c.chunk_id, document_id |-> c.document_id,
     document_title |-> c.document_title,
     document_version |-> Get(c, "document_version"),
     page_start |-> Get(c, "page_start"), page_end |-> Get(c, "page_end"),
     section |-> Get(c, "section"),
     content_preview |-> Slice(c.content, PREVIEW_CHARS)]

\* lines 345-355
RetrievedChunk(c, i) ==
    [chunk_id |-> c.chunk_id, document_id |-> c.document_id,
     document_title |-> c.document_title, content |-> c.content,
     score |-> Score(c), rank |-> i,
     page_start |-> Get(c, "page_start"), page_end |-> Get(c, "page_end"),
     section |-> Get(c, "section")]

\* lines 329-341
Citations(cs) == [i \in 1..Len(cs) |-> CitationItem(cs[i])]

\* lines 344-357
RetrievedChunks(cs) == [i \in 1..Len(cs) |-> RetrievedChunk(cs[i], i)]

\* a page reference that gives the range whenever page_end is there
PageInfo_range(chunk) ==
    IF Truthy(Get(chunk, "page_start"))
    THEN <<", sida ", ToString(chunk.page_start)>> \o
         (IF Truthy(Get(chunk, "page_end"))
          THEN <<"-", ToString(chunk.page_end)>>
          ELSE <<>>)
    ELSE <<>>

\* lines 191-195
PageInfo(chunk) ==
    IF Truthy(Get(chunk, "page_start"))
    THEN <<", sida ", ToString(chunk.page_start)>> \o
         (IF Truthy(Get(chunk, "page_end"))
             /\ chunk.page_end # chunk.page_start
          THEN <<"-", ToString(chunk.page_end)>>
          ELSE <<>>)
    ELSE <<>>

\* chunk.get('document_version', '?')
VersionOf(chunk) ==
    IF "document_version" \in DOMAIN chunk
    THEN ToString(chunk.document_version)
    ELSE "?"

\* lines 196-201
Block(i, chunk) ==
    <<"[", ToString(i), "] ", chunk.document_title, " (v", VersionOf(chunk)>>
    \o PageInfo(chunk)
    \o <<")\n", "Chunk ID: ", ToString(chunk.chunk_id), "\n">>
    \o chunk.content

Delimiter == "\n\n---\n\n"

RECURSIVE Join(_)
Join(parts) ==
    IF parts = <<>> THEN <<>>
    ELSE IF Len(parts) = 1 THEN parts[1]
    ELSE parts[1] \o <<Delimiter>> \o Join(Tail(parts))

\* lines 187-202
_build_context(chunks_) ==
    Join([i \in 1..Len(chunks_) |-> Block(i, chunks_[i])])

InitAssemble ==
    /\ IdleChunk
    /\ EMBEDDING_PROVIDER = "openai"
    /\ candidates = <<>>
    /\ IsRerankedList(reranked, MaxBlocks)
    /\ confidence = _determine_confidence(reranked, EMBEDDING_PROVIDER)
    /\ gate = GateOutcome(Ungroundable(reranked, confidence, EMBEDDING_PROVIDER))
    /\ qpc = "assemble"
    /\ IdlePipe
    /\ IdleIngest

\* line 320
AssembleContext ==
    /\ qpc = "assemble"
    /\ context' = <<_build_context(reranked)>>
    /\ qpc' = "cite"
    /\ UNCHANGED <<chunkVars, ingestVars, EMBEDDING_PROVIDER, candidates,
                   reranked, confidence, gate, answer, citations,
                   retrieved_chunks, llm_calls, knowledge_queries,
                   knowledge_query_chunks, response, calls>>

\* lines 329-357
AssembleCitations ==
    /\ qpc = "cite"
    /\ citations' = Citations(reranked)
    /\ retrieved_chunks' = RetrievedChunks(reranked)
    /\ qpc' = "assembled"
    /\ UNCHANGED <<chunkVars, ingestVars, EMBEDDING_PROVIDER, candidates,
                   reranked, confidence, gate, context, answer, llm_calls,
                   knowledge_queries, knowledge_query_chunks, response, calls>>

NextAssemble == AssembleContext \/ AssembleCitations

SpecAssemble == InitAssemble /\ [][NextAssemble]_vars

\* ------------------------------------------------------------------------
\* ingest_document and _get_or_create_embedding
\* ------------------------------------------------------------------------
\* The uploaded files: an extension and the sentences the extracted text
\* splits into (all on page 1).  Texts 4 and 5 have 400 and 1150 tokens.
OnPage1(ts) == [i \in 1..Len(ts) |-> [text |-> ts[i], page |-> 1]]

Files ==
    {[ext |-> "txt", sentences |-> OnPage1(<<5, 5>>)],
     [ext |-> "pdf", sentences |-> OnPage1(<<5, 4>>)],
     [ext |-> "md",  sentences |-> OnPage1(<<>>)],
     [ext |-> "exe", sentences |-> OnPage1(<<4>>)]}

\* extract_text, lines 57-71
SupportedExt(ext) == ext \in {"pdf", "docx", "doc", "md", "txt", "html"}

\* hashlib.sha256(content).hexdigest(): a digest that determines the content
ContentHash(content) == <<"sha256", content>>

\* embedder.embed_query(content): the vector of a content
Embed(content) == <<"vector", content>>

\* the table without a key on content_hash: no insert is refused
DuplicateKey_none(table, h) == FALSE

\* the table's key: a row with this content_hash exists already, and a plain
\* insert of a second one raises
DuplicateKey(table, h) == \E i \in 1..Len(table) : table[i].content_hash = h

\* a select that never finds a row
CacheSelect_empty(table, h) == <<>>

\* lines 158-160: the select by content_hash, result.data in table order
CacheSelect(table, h) == SelectSeq(table, LAMBDA row : row.content_hash = h)

\* lines 165-173; the token count of the joined text is taken as the sum over
\* its sentences
CacheRow(content, h, emb) ==
    [content_hash |-> h, embedding |-> emb,
     tokens |-> SumTexts(content)]

\* lines 209-219: the row of a chunk, with the embedding key only when there
\* is an embedding
ChunkRow(document_id, chunk, emb) ==
    IF emb = <<>>
    THEN [document_id |-> document_id, chunk_index |-> chunk.chunk_index,
          content |-> chunk.content,
          content_hash |-> ContentHash(chunk.content),
          content_tokens |-> chunk.content_tokens,
          page_start |-> chunk.page_start, page_end |-> chunk.page_end]
    ELSE [document_id |-> document_id, chunk_index |-> chunk.chunk_index,
          content |-> chunk.content,
          content_hash |-> ContentHash(chunk.content),
          content_tokens |-> chunk.content_tokens,
          page_start |-> chunk.page_start, page_end |-> chunk.page_end,
          embedding |-> emb[1]]

Runs == 1..MaxRuns

CurChunk(r) == ing[r].chunks[ing[r].ci]
CurHash(r) == ContentHash(CurChunk(r).content)

\* lines 203-224: after a chunk's row is appended the loop goes to the next
\* chunk, or to the insert of the rows
RowAppended(run, document_id, emb) ==
    [run EXCEPT !.rows = Append(@, ChunkRow(document_id, run.chunks[run.ci], emb)),
                !.embedding = <<>>,
                !.ci = @ + 1,
                !.pc = IF run.ci < Len(run.chunks) THEN "lookup" ELSE "insert_rows"]

Raised(run, err) == [run EXCEPT !.pc = "failed", !.error = err]

\* runs are interchangeable: run r starts after run r - 1 has started
StartsInOrder(r) == IF r = 1 THEN TRUE ELSE ing[r - 1].pc # "idle"

InitIngest ==
    /\ IdleChunk
    /\ EMBEDDING_PROVIDER \in Providers
    /\ IdleRank
    /\ IdlePipe
    /\ IdleIngest

\* lines 193-199: extract the text and chunk it; runs start in index order
IngestStart(r) ==
    /\ ing[r].pc = "idle"
    /\ StartsInOrder(r)
    /\ \E file \in Files :
         /\ SupportedExt(file.ext)
         /\ LET cs == _split_into_chunks(file.sentences)
            IN  ing' = [ing EXCEPT ![r].chunks = cs,
                                   ![r].pc = IF cs = <<>> THEN "insert_rows"
                                             ELSE "lookup"]
    /\ UNCHANGED <<chunkVars, queryVars, uploads, embeddings_cache, knowledge_chunks,
                   embed_requests>>

\* line 71: unsupported file type
IngestUnsupported(r) ==
    /\ ing[r].pc = "idle"
    /\ StartsInOrder(r)
    /\ \E file \in Files : ~SupportedExt(file.ext)
    /\ ing' = [ing EXCEPT ![r] = Raised(@, "unsupported")]
    /\ UNCHANGED <<chunkVars, queryVars, uploads, embeddings_cache, knowledge_chunks,
                   embed_requests>>

\* lines 150-151: not the openai provider, no embedding
IngestNoEmbedding(r) ==
    /\ ing[r].pc = "lookup"
    /\ EMBEDDING_PROVIDER # "openai"
    /\ ing' = [ing EXCEPT ![r] = RowAppended(@, r, <<>>)]
    /\ UNCHANGED <<chunkVars, queryVars, uploads, embeddings_cache, knowledge_chunks,
                   embed_requests>>

\* lines 158-160: the cache has the hash
IngestCacheHit(r) ==
    /\ ing[r].pc = "lookup"
    /\ EMBEDDING_PROVIDER = "openai"
    /\ CacheSelect(embeddings_cache, CurHash(r)) # <<>>
    /\ LET data == CacheSelect(embeddings_cache, CurHash(r))
       IN  ing' = [ing EXCEPT ![r] = RowAppended(@, r, <<data[1].embedding>>)]
    /\ UNCHANGED <<chunkVars, queryVars, uploads, embeddings_cache, knowledge_chunks,
                   embed_requests>>

\* lines 158-164: the cache does not have the hash; the embedding is requested
IngestCacheMiss(r) ==
    /\ ing[r].pc = "lookup"
    /\ EMBEDDING_PROVIDER = "openai"
    /\ CacheSelect(embeddings_cache, CurHash(r)) = <<>>
    /\ ing' = [ing EXCEPT ![r].pc = "embed"]
    /\ embed_requests' = embed_requests + 1
    /\ UNCHANGED <<chunkVars, queryVars, uploads, embeddings_cache, knowledge_chunks>>

\* line 158: the select raised
IngestCacheReadFail(r) ==
    /\ ing[r].pc = "lookup"
    /\ EMBEDDING_PROVIDER = "openai"
    /\ ing' = [ing EXCEPT ![r] = Raised(@, "cache_read")]
    /\ UNCHANGED <<chunkVars, queryVars, uploads, embeddings_cache, knowledge_chunks,
                   embed_requests>>

\* line 164: the embedding came back
IngestEmbedded(r) ==
    /\ ing[r].pc = "embed"
    /\ ing' = [ing EXCEPT ![r].embedding = <<Embed(CurChunk(r).content)>>,
                          ![r].pc = "cache_insert"]
    /\ UNCHANGED <<chunkVars, queryVars, uploads, embeddings_cache, knowledge_chunks,
                   embed_requests>>

\* lines 163-164: get_embedder or embed_query raised
IngestEmbedFail(r) ==
    /\ ing[r].pc = "embed"
    /\ ing' = [ing EXCEPT ![r] = Raised(@, "embed")]
    /\ UNCHANGED <<chunkVars, queryVars, uploads, embeddings_cache, knowledge_chunks,
                   embed_requests>>

\* lines 168-175, 209-221: the cache row is inserted, the vector returned,
\* the chunk row appended
IngestCacheStore(r) ==
    /\ ing[r].pc = "cache_insert"
    /\ ~DuplicateKey(embeddings_cache, CurHash(r))
    /\ embeddings_cache' = Append(embeddings_cache,
          CacheRow(CurChunk(r).content, CurHash(r), ing[r].embedding[1]))
    /\ ing' = [ing EXCEPT ![r] = RowAppended(@, r, ing[r].embedding)]
    /\ UNCHANGED <<chunkVars, queryVars, uploads, knowledge_chunks, embed_requests>>

\* lines 168-173: the insert meets a row another run inserted meanwhile; the
\* exception is not caught
IngestCacheDuplicate(r) ==
    /\ ing[r].pc = "cache_insert"
    /\ DuplicateKey(embeddings_cache, CurHash(r))
    /\ ing' = [ing EXCEPT ![r] = Raised(@, "duplicate_key")]
    /\ UNCHANGED <<chunkVars, queryVars, uploads, embeddings_cache, knowledge_chunks,
                   embed_requests>>

\* lines 168-173: the insert raised for another reason; the exception is not
\* caught
IngestCacheStoreFail(r) ==
    /\ ing[r].pc = "cache_insert"
    /\ ing' = [ing EXCEPT ![r] = Raised(@, "cache_store")]
    /\ UNCHANGED <<chunkVars, queryVars, uploads, embeddings_cache, knowledge_chunks,
                   embed_requests>>

\* lines 223-230: all rows are inserted at once, the count is returned
IngestInsertRows(r) ==
    /\ ing[r].pc = "insert_rows"
    /\ knowledge_chunks' = knowledge_chunks \cup
          {ing[r].rows[i] : i \in 1..Len(ing[r].rows)}
    /\ ing' = [ing EXCEPT ![r].pc = "done", ![r].result = Len(ing[r].rows)]
    /\ UNCHANGED <<chunkVars, queryVars, uploads, embeddings_cache, embed_requests>>

\* a chunk insert that can raise also when there is no row to insert
IngestInsertRowsFail_always(r) ==
    /\ ing[r].pc = "insert_rows"
    /\ ing' = [ing EXCEPT ![r] = Raised(@, "chunk_insert")]
    /\ UNCHANGED <<chunkVars, queryVars, uploads, embeddings_cache, knowledge_chunks,
                   embed_requests>>

\* an insert that stores the rows one at a time and raises after the first
IngestInsertRowsFail_partial(r) ==
    /\ ing[r].pc = "insert_rows"
    /\ ing[r].rows # <<>>
    /\ knowledge_chunks' = knowledge_chunks \cup {ing[r].rows[1]}
    /\ ing' = [ing EXCEPT ![r] = Raised(@, "chunk_insert")]
    /\ UNCHANGED <<chunkVars, queryVars, uploads, embeddings_cache, embed_requests>>

\* line 224: the insert of the rows raised; the rows go in one insert, which
\* stores all of them or none
IngestInsertRowsFail(r) ==
    /\ ing[r].pc = "insert_rows"
    /\ ing[r].rows # <<>>
    /\ ing' = [ing EXCEPT ![r] = Raised(@, "chunk_insert")]
    /\ UNCHANGED <<chunkVars, queryVars, uploads, embeddings_cache, knowledge_chunks,
                   embed_requests>>

NextIngest ==
    \E r \in Runs :
        \/ IngestStart(r)
        \/ IngestUnsupported(r)
        \/ IngestNoEmbedding(r)
        \/ IngestCacheHit(r)
        \/ IngestCacheMiss(r)
        \/ IngestCacheReadFail(r)
        \/ IngestEmbedded(r)
        \/ IngestEmbedFail(r)
        \/ IngestCacheStore(r)
        \/ IngestCacheDuplicate(r)
        \/ IngestCacheStoreFail(r)
        \/ IngestInsertRows(r)
        \/ IngestInsertRowsFail(r)

SpecIngest == InitIngest /\ [][NextIngest]_vars

\* ------------------------------------------------------------------------
\* upload_document, activate_document and archive_document of
\* routers/documents.py. The document of request r has id r, and its
\* ingestion is run r. A request that raised before ingest_document has pc
\* "failed"; after that the request ends as its ingestion run ends.
\* ------------------------------------------------------------------------
\* the collection_ids form field, split on commas; the requests of one
\* behaviour are posted with the same value
CollectionInputs == {<<>>, <<"c1", "c2">>}

InitUpload ==
    /\ IdleChunk
    /\ EMBEDDING_PROVIDER \in Providers
    /\ IdleRank
    /\ IdlePipe
    /\ ing = [r \in Runs |-> [IdleRun EXCEPT !.pc = "waiting"]]
    /\ \E cids \in CollectionInputs :
         uploads = [r \in Runs |-> [NewUpload EXCEPT !.collection_ids = cids]]
    /\ embeddings_cache = <<>>
    /\ knowledge_chunks = {}
    /\ embed_requests = 0

\* ingest_document is called: run r may start
CallIngest(r) == [ing EXCEPT ![r].pc = "idle"]

\* lines 34-42: the file is uploaded to the storage
UploadStore(r) ==
    /\ uploads[r].pc = "new"
    /\ IF r = 1 THEN TRUE ELSE uploads[r - 1].pc # "new"
    /\ uploads' = [uploads EXCEPT ![r].stored = TRUE, ![r].pc = "stored"]
    /\ UNCHANGED <<chunkVars, queryVars, ing, embeddings_cache,
                   knowledge_chunks, embed_requests>>

\* a request that goes on to ingestion without linking the collections
UploadCreate_unlinked(r) ==
    /\ uploads[r].pc = "stored"
    /\ uploads' = [uploads EXCEPT ![r].status = "draft", ![r].pc = "ingest"]
    /\ ing' = CallIngest(r)
    /\ UNCHANGED <<chunkVars, queryVars, embeddings_cache, knowledge_chunks,
                   embed_requests>>

\* lines 44-68: the document record is inserted with status draft; without
\* collection ids ingest_document is called next (line 78)
UploadCreate(r) ==
    /\ uploads[r].pc = "stored"
    /\ uploads' = [uploads EXCEPT
                      ![r].status = "draft",
                      ![r].pc = IF uploads[r].collection_ids = <<>>
                                THEN "ingest" ELSE "link"]
    /\ ing' = IF uploads[r].collection_ids = <<>> THEN CallIngest(r) ELSE ing
    /\ UNCHANGED <<chunkVars, queryVars, embeddings_cache, knowledge_chunks,
                   embed_requests>>

\* lines 69-75: one iteration of the loop over the collection ids; after the
\* last one ingest_document is called (line 78)
UploadLink(r) ==
    /\ uploads[r].pc = "link"
    /\ LET n == Len(uploads[r].links) + 1
           last == n = Len(uploads[r].collection_ids)
       IN  /\ uploads' = [uploads EXCEPT
                            ![r].links = Append(@, uploads[r].collection_ids[n]),
                            ![r].pc = IF last THEN "ingest" ELSE "link"]
           /\ ing' = IF last THEN CallIngest(r) ELSE ing
    /\ UNCHANGED <<chunkVars, queryVars, embeddings_cache, knowledge_chunks,
                   embed_requests>>

\* lines 40, 60-62, 72: the storage upload or an insert raised, or the insert
\* of the document returned no data; nothing is undone
UploadRaise(r) ==
    /\ uploads[r].pc \in {"new", "stored", "link"}
    /\ IF r = 1 THEN TRUE ELSE uploads[r - 1].pc # "new"
    /\ uploads' = [uploads EXCEPT ![r].pc = "failed"]
    /\ UNCHANGED <<chunkVars, queryVars, ing, embeddings_cache,
                   knowledge_chunks, embed_requests>>

\* the upload request of document r has ended: it raised, or its
\* ingest_document returned or raised
RequestEnded(r) ==
    \/ uploads[r].pc = "failed"
    \/ uploads[r].pc = "ingest" /\ ing[r].pc \in {"done", "failed"}

\* lines 110-117; the requests taken are those for the documents of ended
\* upload requests
activate_document(r) ==
    /\ RequestEnded(r)
    /\ uploads[r].status # "none"
    /\ uploads' = [uploads EXCEPT ![r].status = "active"]
    /\ UNCHANGED <<chunkVars, queryVars, ing, embeddings_cache,
                   knowledge_chunks, embed_requests>>

\* lines 120-127; as for activate_document
archive_document(r) ==
    /\ RequestEnded(r)
    /\ uploads[r].status # "none"
    /\ uploads' = [uploads EXCEPT ![r].status = "archived"]
    /\ UNCHANGED <<chunkVars, queryVars, ing, embeddings_cache,
                   knowledge_chunks, embed_requests>>

\* NextIngest: the steps of ingest_document (line 78) for the requests that
\* called it
NextUpload ==
    \/ NextIngest
    \/ \E r \in Runs :
          \/ UploadStore(r)
          \/ UploadCreate(r)
          \/ UploadLink(r)
          \/ UploadRaise(r)
          \/ activate_document(r)
          \/ archive_document(r)

SpecUpload == InitUpload /\ [][NextUpload]_vars

\* ------------------------------------------------------------------------
\* The chunk builder on its own input, or ingestion runs that call it; the
\* for loop of _split_into_chunks goes on as long as it has a next step
\* ------------------------------------------------------------------------
MaxPass == 3

InitBuild == (InitChunk /\ Len(sentences) <= MaxPass) \/ InitIngest

BuildChunks == cpc = "loop" /\ NextChunk

RunIngestion == cpc = "idle" /\ NextIngest

NextBuild == BuildChunks \/ RunIngestion

FairSpecBuild == InitBuild /\ [][NextBuild]_vars /\ WF_vars(BuildChunks)

\* ------------------------------------------------------------------------
\* The service under one provider setting: it serves ingestion runs
\* (routers/documents.py) or a query (routers/query.py)
\* ------------------------------------------------------------------------
InitService == InitIngest \/ InitQuery

ServeIngestion == qpc = "idle" /\ NextIngest

ServeQuery == qpc # "idle" /\ NextQuery

NextService == ServeIngestion \/ ServeQuery

SpecService == InitService /\ [][NextService]_vars

\* ------------------------------------------------------------------------
\* The service under any value of the environment variable: config.py reads
\* EMBEDDING_PROVIDER as it is written, without a check and without folding
\* the case
\* ------------------------------------------------------------------------
ProviderSettings == Providers \cup {"OpenAI"}

InitSetting ==
    /\ IdleChunk
    /\ EMBEDDING_PROVIDER \in ProviderSettings
    /\ candidates = <<>>
    /\ reranked = <<>>
    /\ confidence = "none"
    /\ gate = "none"
    /\ qpc \in {"idle", "start"}
    /\ IdlePipe
    /\ IdleIngest

SpecSetting == InitSetting /\ [][NextService]_vars

\* ------------------------------------------------------------------------
\* Properties of the chunk builder
\* ------------------------------------------------------------------------
TextsOf(ss) == [i \in 1..Len(ss) |-> ss[i].text]

\* the sentences of chunk k that were not carried over from chunk k-1
OwnPart(k) == SubSeq(chunks[k].content, carried[k] + 1, Len(chunks[k].content))

RECURSIVE ConcatOwn(_)
ConcatOwn(k) == IF k = 0 THEN <<>> ELSE ConcatOwn(k - 1) \o OwnPart(k)

NoOversizedSentence(c) ==
    \A j \in 1..Len(c.content) : _count_tokens(c.content[j]) <= CHUNK_MAX_TOKENS

\* C1: every produced chunk that contains no sentence larger than
\* CHUNK_MAX_TOKENS has content_tokens <= CHUNK_MAX_TOKENS, chunks that begin
\* with carried-over sentences included.
C1_TokenBound ==
    \A k \in 1..Len(chunks) :
        NoOversizedSentence(chunks[k]) => chunks[k].content_tokens <= CHUNK_MAX_TOKENS

\* C2: no sentence is dropped or truncated: once the pass is done, the chunks
\* without their carried-over prefixes, concatenated in chunk order, are the
\* input sentence sequence, and every input sentence is in some chunk; during
\* the pass the same holds of the sentences consumed so far, the accumulator
\* counted as the chunk under construction.
C2_Coverage ==
    /\ Len(carried) = Len(chunks)
    /\ \A k \in 1..Len(chunks) : carried[k] < Len(chunks[k].content)
    /\ cpc = "done" =>
          /\ ConcatOwn(Len(chunks)) = TextsOf(sentences)
          /\ \A i \in 1..Len(sentences) :
                \E k \in 1..Len(chunks) : \E j \in 1..Len(chunks[k].content) :
                    chunks[k].content[j] = sentences[i].text
    /\ cpc = "loop" =>
          ConcatOwn(Len(chunks))
            \o SubSeq(TextsOf(current_sentences), Len(overlap_sentences) + 1,
                      Len(current_sentences))
          = SubSeq(TextsOf(sentences), 1, si - 1)

\* C2 witness: a finished pass over an input with an oversized sentence that
\* produced several chunks, one of them starting with carried-over sentences.
C2_Witness ==
    /\ cpc = "done"
    /\ Len(chunks) >= 2
    /\ \E i \in 1..Len(sentences) : _count_tokens(sentences[i].text) > CHUNK_MAX_TOKENS
    /\ \E k \in 1..Len(chunks) : carried[k] > 0

\* C3: the sentences carried into the next accumulator when a chunk is closed
\* sum to at most CHUNK_OVERLAP_TOKENS, for the accumulator and for every
\* chunk already produced.
C3_OverlapBound ==
    /\ SumTokens(overlap_sentences) <= CHUNK_OVERLAP_TOKENS
    /\ cpc = "loop" =>
          SubSeq(current_sentences, 1, Len(overlap_sentences)) = overlap_sentences
    /\ \A k \in 1..Len(chunks) :
          SumTexts(SubSeq(chunks[k].content, 1, carried[k])) <= CHUNK_OVERLAP_TOKENS

\* C3 witness: a chunk was closed and two sentences were carried over, and an
\* earlier close carried nothing.
C3_Witness ==
    /\ cpc = "loop"
    /\ Len(chunks) >= 2
    /\ Len(overlap_sentences) = 2
    /\ carried[2] = 0

\* C4: the chunks carry chunk_index 0, 1, ..., n-1 in output order.
C4_IndexContiguity ==
    \A k \in 1..Len(chunks) : chunks[k].chunk_index = k - 1

\* C4 witness: a finished pass with three chunks, one forced by an oversized
\* sentence.
C4_Witness ==
    /\ cpc = "done"
    /\ Len(chunks) >= 3
    /\ \E k \in 1..Len(chunks) : ~NoOversizedSentence(chunks[k])

\* ------------------------------------------------------------------------
\* Properties of the ranking functions
\* ------------------------------------------------------------------------
Semantic == EMBEDDING_PROVIDER = "openai"
Lexical == EMBEDDING_PROVIDER = "fulltext"

\* C5: the outcome is UNGROUNDABLE exactly when the reranked set is empty, or
\* the label is low, or (semantic strategy only) every score of the set is
\* below 0.50; the lexical strategy never applies the floor.
C5_GateDecision ==
    qpc = "gated" =>
        /\ gate \in {"GROUNDABLE", "UNGROUNDABLE"}
        /\ gate = "UNGROUNDABLE" <=>
              \/ reranked = <<>>
              \/ confidence = "low"
              \/ /\ Semantic
                 /\ \A i \in 1..Len(reranked) :
                       Score(reranked[i]) < WEAK_MATCH_SCORE_THRESHOLD
        /\ (Lexical /\ reranked # <<>> /\ confidence \in {"high", "medium"})
              => gate = "GROUNDABLE"
        /\ (confidence = "low" \/ reranked = <<>>) => gate = "UNGROUNDABLE"

\* C5 witness: the semantic gate refused a non-empty set labelled high
\* because its best score is below the floor.
C5_Witness ==
    /\ qpc = "gated"
    /\ Semantic
    /\ confidence = "high"
    /\ reranked # <<>>
    /\ gate = "UNGROUNDABLE"

\* C7: _rerank returns the first min(6, n) rows of the input in a stable
\* descending order of score: rows of the input, each once, scores
\* non-increasing, equal scores in input order, and no row left out that
\* would sort before a row kept.
C7_Rerank ==
    qpc \in {"classify", "classified"} =>
        LET n == Len(candidates)
            m == Len(reranked)
            kept == {reranked[i].chunk_id : i \in 1..m}
        IN  /\ m = (IF n < 6 THEN n ELSE 6)
            /\ \A i \in 1..m :
                 /\ reranked[i].chunk_id \in 1..n
                 /\ reranked[i] = candidates[reranked[i].chunk_id]
            /\ \A i, j \in 1..m :
                 i < j =>
                   \/ Score(reranked[i]) > Score(reranked[j])
                   \/ /\ Score(reranked[i]) = Score(reranked[j])
                      /\ reranked[i].chunk_id < reranked[j].chunk_id
            /\ \A c \in (1..n) \ kept : \A i \in 1..m :
                   \/ Score(candidates[c]) < Score(reranked[i])
                   \/ /\ Score(candidates[c]) = Score(reranked[i])
                      /\ c > reranked[i].chunk_id

\* C7 witness: more than six candidates, the input not already sorted, and a
\* tie between a kept row and a dropped row.
C7_Witness ==
    /\ qpc = "classify"
    /\ Len(candidates) > 6
    /\ \E i \in 1..(Len(candidates) - 1) :
          Score(candidates[i]) < Score(candidates[i + 1])
    /\ \E c \in 1..Len(candidates) :
          /\ \A i \in 1..Len(reranked) : reranked[i].chunk_id # c
          /\ Score(candidates[c]) = Score(reranked[Len(reranked)])

\* C8: the label follows the arithmetic mean of the scores: semantic
\* strategy mean >= 0.75 high, mean >= 0.50 medium, else low; lexical
\* strategy mean >= 0.10 high, mean >= 0.01 medium, else low; the empty set
\* is low; the label is always one of the three.
C8_Confidence ==
    qpc = "classified" =>
        LET n == Len(reranked)
            sum == SumScores(reranked)
            hi == IF Semantic THEN 750 ELSE 100
            med == IF Semantic THEN 500 ELSE 10
        IN  /\ confidence \in {"high", "medium", "low"}
            /\ Semantic \/ Lexical
            /\ n = 0 => confidence = "low"
            /\ n > 0 =>
                 /\ confidence = "high" <=> sum >= hi * n
                 /\ confidence = "medium" <=> (sum >= med * n /\ sum < hi * n)
                 /\ confidence = "low" <=> sum < med * n

\* C8 witness: a set whose mean is exactly the upper threshold was labelled
\* high.
C8_Witness ==
    /\ qpc = "classified"
    /\ reranked # <<>>
    /\ SumScores(reranked) = (IF Semantic THEN 750 ELSE 100) * Len(reranked)
    /\ confidence = "high"

\* C6: when the gate says UNGROUNDABLE no chat completion is called and no
\* context is built, and the response is the sentinel answer with empty
\* citation and retrieved-chunk lists; a chat completion is called, and a
\* context built, only after the gate said GROUNDABLE; zero candidates give
\* confidence low and UNGROUNDABLE.
C6_ShortCircuit ==
    /\ gate = "UNGROUNDABLE" =>
          /\ llm_calls = 0
          /\ context = <<>>
          /\ answer = NO_ANSWER
          /\ citations = <<>>
          /\ retrieved_chunks = <<>>
    /\ (gate = "UNGROUNDABLE" /\ qpc = "done") =>
          /\ response[1].answer = NO_ANSWER
          /\ response[1].citations = <<>>
          /\ response[1].retrieved_chunks = <<>>
    /\ (llm_calls > 0 \/ context # <<>>) => gate = "GROUNDABLE"
    /\ (qpc \in {"log", "generate", "done"} /\ candidates = <<>>) =>
          confidence = "low" /\ gate = "UNGROUNDABLE"
    /\ qpc \in {"log", "generate", "done"} => gate # "none"

\* C6 witness: a query over a non-empty reranked set returned the sentinel
\* response after the gate said UNGROUNDABLE.
C6_Witness ==
    /\ qpc = "done"
    /\ gate = "UNGROUNDABLE"
    /\ reranked # <<>>
    /\ response[1].answer = NO_ANSWER

\* ------------------------------------------------------------------------
\* Properties of the ingestion
\* ------------------------------------------------------------------------
\* C9: in semantic mode a failure of the insert into the embeddings cache,
\* after the embedding was computed, does not fail the ingestion run.
C9_CacheStoreBestEffort ==
    \A r \in Runs :
        ~(ing[r].pc = "failed" /\ ing[r].error = "cache_store")

\* C10: two runs that both miss the cache for the same content_hash before
\* either inserts both complete; neither run fails on the row the other one
\* inserted.
C10_RaceNeutral ==
    \A r \in Runs :
        ~(ing[r].pc = "failed" /\ ing[r].error = "duplicate_key")

SecondCall(r, k) ==
    /\ ing[r].pc = "lookup"
    /\ ing'[r] # ing[r]
    /\ k \in 1..Len(ing[r].rows)
    /\ ing[r].rows[k].content_hash = CurHash(r)

\* C12: in semantic mode the second of two successive calls of
\* _get_or_create_embedding with the same content hash issues no embedding
\* request, writes nothing to the cache, and returns the vector the first
\* call returned.
C12_CacheIdempotence ==
    [][Semantic =>
        \A r \in Runs : \A k \in 1..Len(ing[r].rows) :
            SecondCall(r, k) =>
                /\ embed_requests' = embed_requests
                /\ embeddings_cache' = embeddings_cache
                /\ ing'[r].pc # "embed"
                /\ Len(ing'[r].rows) > Len(ing[r].rows) =>
                      ing'[r].rows[Len(ing'[r].rows)].embedding
                          = ing[r].rows[k].embedding]_vars

\* a run has made two calls with the same content hash, both returned, one
\* embedding was requested and one row is cached
C12_Witness ==
    /\ Semantic
    /\ \E r \in Runs :
         /\ Len(ing[r].rows) = 2
         /\ ing[r].rows[1].content_hash = ing[r].rows[2].content_hash
         /\ ing[r].rows[1].embedding = ing[r].rows[2].embedding
    /\ embed_requests = 1
    /\ Len(embeddings_cache) = 1

\* the stored chunk rows of the document of run r
StoredChunks(r) == {row \in knowledge_chunks : row.document_id = r}

\* C14: a run of ingest_document that failed, at whatever step, has stored
\* no chunk row of its document; the stored chunks of a document are none
\* or the complete chunk sequence 0..n-1.
C14_NoPartialIndex ==
    \A r \in Runs :
        /\ ing[r].pc = "failed" => StoredChunks(r) = {}
        /\ \/ StoredChunks(r) = {}
           \/ /\ Cardinality(StoredChunks(r)) = Len(ing[r].chunks)
              /\ {row.chunk_index : row \in StoredChunks(r)}
                    = 0..(Len(ing[r].chunks) - 1)
              /\ \A row \in StoredChunks(r) :
                    row.content = ing[r].chunks[row.chunk_index + 1].content

\* one run failed after it had built a row and stored nothing, another run
\* stored the two chunks of its document
C14_Witness ==
    \E r, q \in Runs :
        /\ ing[r].pc = "failed"
        /\ ing[r].rows # <<>>
        /\ StoredChunks(r) = {}
        /\ ing[q].pc = "done"
        /\ Cardinality(StoredChunks(q)) = 2

\* ------------------------------------------------------------------------
\* Properties of the service under the lexical setting
\* ------------------------------------------------------------------------
\* C13: with EMBEDDING_PROVIDER = fulltext, _get_or_create_embedding returns
\* none without a read or a write of the embeddings cache and without an
\* embedding request, every chunk row is stored without an embedding field,
\* and the query path issues no embedding request before the retrieval.
C13_LexicalNeverEmbeds ==
    Lexical =>
        /\ embed_requests = 0
        /\ embeddings_cache = <<>>
        /\ \A r \in Runs :
              /\ ing[r].pc \notin {"embed", "cache_insert"}
              /\ ing[r].error \notin {"cache_read", "embed", "duplicate_key",
                                      "cache_store"}
              /\ \A k \in 1..Len(ing[r].rows) :
                    "embedding" \notin DOMAIN ing[r].rows[k]
        /\ \A row \in knowledge_chunks : "embedding" \notin DOMAIN row
        /\ \A i \in 1..Len(calls) :
              calls[i].via # "embedder" /\ calls[i].op # "embed_query"

\* under the lexical setting a run has stored the two chunk rows of its
\* document
C13_Witness ==
    /\ Lexical
    /\ \E r \in Runs :
         /\ ing[r].pc = "done"
         /\ ing[r].result = 2
         /\ \A k \in 1..2 : ing[r].rows[k] \in knowledge_chunks

\* ------------------------------------------------------------------------
\* Properties of process_query
\* ------------------------------------------------------------------------
\* the retrieval returned a candidate row without a score
MalformedCandidate ==
    \E i \in 1..Len(candidates) : "score" \notin DOMAIN candidates[i]

\* C15: a malformed collaborator result (a candidate row without a score)
\* ends the request as a failure; no default score is substituted when
\* reranking, classifying confidence or gating, so the request never gets
\* past the retrieval to an answer, a log row or a response.
C15_NoSilentDefaults ==
    MalformedCandidate => qpc \in {"retrieved", "failed"} /\ response = <<>>

\* C16: a run of process_query that reaches the logging step returns,
\* whatever write of the logging fails (client creation, the insert of the
\* query row, the insert of the association rows), and the QueryResponse it
\* returns is the one built from the answer, citations, retrieved chunks and
\* confidence it had before the logging, as when the logging succeeds.
C16_LoggingNeverFails ==
    [][qpc = "log" /\ qpc' # "log" =>
          /\ qpc' = "done"
          /\ response' = <<[query_id |-> query_id, answer |-> answer,
                            citations |-> citations,
                            retrieved_chunks |-> retrieved_chunks,
                            confidence |-> confidence]>>]_vars

\* the insert of the association rows failed after the query row was
\* written, and the generated answer was returned
C16_Witness ==
    /\ qpc = "done"
    /\ reranked # <<>>
    /\ Len(knowledge_queries) = 1
    /\ knowledge_query_chunks = <<>>
    /\ calls[Len(calls)] = Raise(Call("admin", "insert knowledge_query_chunks"))
    /\ response # <<>>
    /\ response[1].answer = "generated answer"
    /\ response[1].citations # <<>>

\* process_query returned and no call of the logging raised
LogAccepted == qpc = "done" /\ \A i \in 1..Len(calls) : ~calls[i].raised

\* the rows of a table t with the value id in the column col
RowsOf(t, col, id) == SelectSeq(t, LAMBDA row : row[col] = id)

\* the positions in calls of the operation op
CallsOf(op) == {i \in 1..Len(calls) : calls[i].op = op}

\* C17: when the log store accepts the writes, after process_query returns
\* there is exactly one knowledge_queries row with the returned query_id, its
\* confidence is high, medium or low, knowledge_query_chunks has exactly one
\* row per reranked chunk with the ranks 1..n in rerank order, the query row
\* is written before the association rows, and the association rows are
\* written also when the outcome is UNGROUNDABLE and the response has no
\* retrieved chunks.
C17_LoggingComplete ==
    LogAccepted =>
        LET id == response[1].query_id
            qrows == RowsOf(knowledge_queries, "id", id)
            assoc == RowsOf(knowledge_query_chunks, "query_id", id)
        IN  /\ Len(qrows) = 1
            /\ qrows[1].confidence \in {"high", "medium", "low"}
            /\ qrows[1].confidence = response[1].confidence
            /\ Len(assoc) = Len(reranked)
            /\ \A i \in 1..Len(assoc) :
                  /\ assoc[i].rank = i
                  /\ assoc[i].chunk_id = reranked[i].chunk_id
            /\ \A i \in CallsOf("insert knowledge_queries") :
                  \A j \in CallsOf("insert knowledge_query_chunks") : i < j
            /\ Cardinality(CallsOf("insert knowledge_queries")) = 1
            /\ reranked # <<>> =>
                  Cardinality(CallsOf("insert knowledge_query_chunks")) = 1

\* an UNGROUNDABLE outcome with several reranked chunks: the response has no
\* retrieved chunks and the association rows are written
C17_Witness ==
    /\ LogAccepted
    /\ gate = "UNGROUNDABLE"
    /\ Len(reranked) >= 2
    /\ response[1].retrieved_chunks = <<>>
    /\ Len(knowledge_query_chunks) = Len(reranked)
    /\ Len(knowledge_queries) = 1

\* the retrieval RPCs and the log inserts
RetrievalOps ==
    {"rpc match_knowledge_chunks", "rpc search_knowledge_chunks_fulltext"}

LogInsertOps == {"insert knowledge_queries", "insert knowledge_query_chunks"}

\* C18: in every run of process_query every retrieval call (the vector or
\* the fulltext RPC) goes through a client built from the caller's JWT, and
\* the admin client is used only for the inserts into knowledge_queries and
\* knowledge_query_chunks, never for the retrieval.
C18_CredentialSeparation ==
    /\ \A i \in 1..Len(calls) :
          /\ calls[i].op \in RetrievalOps => calls[i].via = "user_jwt"
          /\ calls[i].via = "admin" =>
                /\ calls[i].op \notin RetrievalOps
                /\ calls[i].op \in LogInsertOps \cup {"get_admin_supabase"}
          /\ calls[i].op \in LogInsertOps => calls[i].via = "admin"
    /\ qpc \in {"retrieved", "generate", "log", "done"} =>
          \E i \in 1..Len(calls) :
              calls[i].op \in RetrievalOps /\ calls[i].via = "user_jwt"

\* a run that retrieved through the caller's client and logged both tables
\* through the admin client
C18_Witness ==
    /\ qpc = "done"
    /\ \E i, j, k \in 1..Len(calls) :
          /\ i < j /\ j < k
          /\ calls[i] = Call("user_jwt", "rpc match_knowledge_chunks")
          /\ calls[j] = Call("admin", "insert knowledge_queries")
          /\ calls[k] = Call("admin", "insert knowledge_query_chunks")

\* ------------------------------------------------------------------------
\* Properties of the citations, the retrieved chunks and the context
\* ------------------------------------------------------------------------
\* a is the first n characters of b, or all of b when b is shorter
IsPrefixOfAtMost(a, b, n) ==
    /\ Len(a) = (IF Len(b) < n THEN Len(b) ELSE n)
    /\ \A k \in 1..Len(a) : a[k] = b[k]

\* C19: on a GROUNDABLE outcome the citation list and the retrieved-chunk
\* list have exactly one entry per reranked chunk, in rank order; the
\* content_preview of a citation is the first 300 characters of the chunk
\* content (all of it when shorter), and the retrieved chunk at position i
\* has rank i, counted from 1, and the full content.
C19_Projection ==
    (gate = "GROUNDABLE" /\ qpc = "assembled") =>
        /\ Len(citations) = Len(reranked)
        /\ Len(retrieved_chunks) = Len(reranked)
        /\ \A i \in 1..Len(reranked) :
              /\ citations[i].chunk_id = reranked[i].chunk_id
              /\ IsPrefixOfAtMost(citations[i].content_preview,
                                  reranked[i].content, 300)
              /\ retrieved_chunks[i].chunk_id = reranked[i].chunk_id
              /\ retrieved_chunks[i].rank = i
              /\ retrieved_chunks[i].content = reranked[i].content

\* two chunks, one longer than the preview and one shorter
C19_Witness ==
    /\ gate = "GROUNDABLE"
    /\ qpc = "assembled"
    /\ Len(citations) = 2
    /\ Len(reranked[1].content) = 301
    /\ Len(citations[1].content_preview) = 300
    /\ Len(reranked[2].content) = 299
    /\ Len(citations[2].content_preview) = 299

\* the positions of the delimiter in a context, in increasing order
DelimiterAt(ctx) == {k \in 1..Len(ctx) : ctx[k] = "\n\n---\n\n"}

NthOf(S, n) == CHOOSE p \in S : Cardinality({q \in S : q < p}) = n - 1

\* the i-th of the blocks the delimiters separate
BlockOf(ctx, i) ==
    LET D == DelimiterAt(ctx)
        from == IF i = 1 THEN 1 ELSE NthOf(D, i - 1) + 1
        to == IF i = Cardinality(D) + 1 THEN Len(ctx) ELSE NthOf(D, i) - 1
    IN  SubSeq(ctx, from, to)

\* the page reference of a block: what stands between the version and the
\* closing parenthesis of the header line
PageRefOf(block) ==
    LET close == CHOOSE k \in 1..Len(block) :
                    /\ block[k] = ")\n"
                    /\ \A j \in 1..(k - 1) : block[j] # ")\n"
    IN  SubSeq(block, 7, close - 1)

\* the page reference the layout asks for
ExpectedPageRef(c) ==
    IF "page_start" \notin DOMAIN c THEN <<>>
    ELSE IF "page_end" \notin DOMAIN c THEN <<", sida ", ToString(c.page_start)>>
    ELSE IF c.page_end = c.page_start THEN <<", sida ", ToString(c.page_start)>>
    ELSE <<", sida ", ToString(c.page_start), "-", ToString(c.page_end)>>

\* C20: _build_context gives one block per reranked chunk, in rank order,
\* labelled with the index counted from 1, the blocks separated by the fixed
\* delimiter; the page reference is 'sida X' when page_start = page_end or
\* page_end is unknown, 'sida X-Y' when they differ, and there is none when
\* no page_start is known.
C20_ContextLayout ==
    context # <<>> =>
        LET ctx == context[1]
        IN  /\ Cardinality(DelimiterAt(ctx)) = Len(reranked) - 1
            /\ \A i \in 1..Len(reranked) :
                  LET block == BlockOf(ctx, i)
                  IN  /\ SubSeq(block, 1, 3) = <<"[", ToString(i), "] ">>
                      /\ PageRefOf(block) = ExpectedPageRef(reranked[i])
                      /\ \E k \in 1..Len(block) - 1 :
                            /\ block[k] = "Chunk ID: "
                            /\ block[k + 1] = ToString(reranked[i].chunk_id)
                      /\ SubSeq(block, Len(block) - Len(reranked[i].content) + 1,
                                Len(block)) = reranked[i].content

\* a context of two blocks, the first of a chunk on one page with page_end
\* known, the second of a chunk that spans two pages
C20_Witness ==
    /\ context # <<>>
    /\ Len(reranked) = 2
    /\ "page_end" \in DOMAIN reranked[1]
    /\ reranked[1].page_end = reranked[1].page_start
    /\ "page_end" \in DOMAIN reranked[2]
    /\ reranked[2].page_end # reranked[2].page_start
    /\ Cardinality(DelimiterAt(context[1])) = 1

\* ------------------------------------------------------------------------
\* Further properties of the chunk builder
\* ------------------------------------------------------------------------
\* the first sentence of chunk k that was not carried over
FirstNew(k) == chunks[k].content[carried[k] + 1]

\* an iteration of the loop closes a chunk
Closes == cpc = "loop" /\ si' = si + 1 /\ Len(chunks') = Len(chunks) + 1

\* an iteration of the loop takes the sentence into the current chunk
Includes ==
    /\ cpc = "loop" /\ si' = si + 1 /\ chunks' = chunks
    /\ current_sentences' = Append(current_sentences, sentences[si])

FourOf400 ==
    /\ Len(sentences) = 4
    /\ \A i \in 1..4 : _count_tokens(sentences[i].text) = 400

\* C21: the current chunk is closed before a sentence exactly when the
\* accumulator is non-empty and the running count plus the sentence's count
\* is strictly greater than 1200, and a sentence that brings the total to
\* exactly 1200 is included; a non-final chunk's content_tokens plus the
\* count of the first new sentence of the next chunk exceeds 1200; four
\* sentences of 400 tokens give chunk 0 of sentences 1 to 3 with 1200 tokens
\* and chunk 1 of sentence 4 after an overlap of at most 125 tokens.
C21_ClosingRule ==
    /\ [][(cpc = "loop" /\ si' = si + 1) =>
            LET t == _count_tokens(sentences[si].text)
            IN  /\ Closes <=> (current_sentences # <<>>
                                /\ current_tokens + t > 1200)
                /\ ~Closes => Includes
                /\ (current_tokens + t = 1200) => Includes]_vars
    /\ [](\A k \in 1..(Len(chunks) - 1) :
            chunks[k].content_tokens + _count_tokens(FirstNew(k + 1)) > 1200)
    /\ []((FourOf400 /\ cpc = "done") =>
            /\ Len(chunks) = 2
            /\ chunks[1].content = SubSeq(TextsOf(sentences), 1, 3)
            /\ chunks[1].content_tokens = 1200
            /\ OwnPart(2) = SubSeq(TextsOf(sentences), 4, 4)
            /\ SumTexts(SubSeq(chunks[2].content, 1, carried[2])) <= 125)

\* the pass over four sentences of 400 tokens is done
C21_Witness == FourOf400 /\ cpc = "done" /\ Len(chunks) = 2

\* the last n elements of a sequence
Suffix(seq, n) == SubSeq(seq, Len(seq) - n + 1, Len(seq))

\* ov is the longest suffix of the texts closed whose token counts sum to
\* at most 125
IsLongestFittingSuffix(ov, closed) ==
    /\ Len(ov) <= Len(closed)
    /\ ov = Suffix(closed, Len(ov))
    /\ SumTexts(ov) <= 125
    /\ Len(ov) < Len(closed) => SumTexts(Suffix(closed, Len(ov) + 1)) > 125

\* C22: the sentences carried over at a close are the longest contiguous
\* suffix of the closed chunk's sentences whose token counts sum to at most
\* 125, they start the next chunk in their original order, the running
\* count is reset to their sum, so the running count is at every step the
\* sum of the token counts of the accumulated sentences, and each chunk's
\* content_tokens is the sum over its sentences.
C22_OverlapSeed ==
    /\ cpc = "loop" => current_tokens = SumTokens(current_sentences)
    /\ \A k \in 1..Len(chunks) :
          chunks[k].content_tokens = SumTexts(chunks[k].content)
    /\ Len(chunks) >= 1 /\ cpc = "loop" =>
          /\ IsLongestFittingSuffix(TextsOf(overlap_sentences),
                                    chunks[Len(chunks)].content)
          /\ SubSeq(current_sentences, 1, Len(overlap_sentences))
                = overlap_sentences
    /\ \A k \in 2..Len(chunks) :
          IsLongestFittingSuffix(SubSeq(chunks[k].content, 1, carried[k]),
                                 chunks[k - 1].content)

\* a chunk of three or more sentences was closed, its last two sentences
\* were carried over and the third last did not fit
C22_Witness ==
    /\ cpc = "done"
    /\ \E k \in 2..Len(chunks) :
          /\ carried[k] = 2
          /\ Len(chunks[k - 1].content) >= 3

\* the input sentences chunk k is made of, the carried-over ones included:
\* the chunk ends where its own part ends in the input
ChunkEnd(k) == Len(ConcatOwn(k))

ChunkSentences(k) ==
    SubSeq(sentences, ChunkEnd(k) - Len(chunks[k].content) + 1, ChunkEnd(k))

\* C23: for every produced chunk page_start is the smallest and page_end the
\* largest page number among the sentences of the chunk, the carried-over
\* sentences included; hence page_start <= page_end, and every chunk has a
\* page_start.
C23_PageProvenance ==
    \A k \in 1..Len(chunks) :
        LET ss == ChunkSentences(k)
            pages == {ss[i].page : i \in 1..Len(ss)}
        IN  /\ TextsOf(ss) = chunks[k].content
            /\ "page_start" \in DOMAIN chunks[k]
            /\ chunks[k].page_start \in pages
            /\ chunks[k].page_end \in pages
            /\ \A pg \in pages : chunks[k].page_start <= pg
            /\ \A pg \in pages : pg <= chunks[k].page_end
            /\ chunks[k].page_start <= chunks[k].page_end

\* a chunk that starts with a carried-over sentence of an earlier page than
\* its new sentences
C23_Witness ==
    \E k \in 2..Len(chunks) :
        /\ carried[k] > 0
        /\ ChunkSentences(k)[1].page = chunks[k].page_start
        /\ chunks[k].page_start < chunks[k].page_end
        /\ ChunkSentences(k)[carried[k] + 1].page = chunks[k].page_end

\* C29: with page numbers that do not decrease in input order, consecutive
\* chunks k and k+1 have page_start(k) <= page_start(k+1) and
\* page_end(k) <= page_end(k+1), also when chunk k+1 starts with sentences
\* carried over from chunk k.
C29_PagesAdvance ==
    \A k \in 1..(Len(chunks) - 1) :
        /\ chunks[k].page_start <= chunks[k + 1].page_start
        /\ chunks[k].page_end <= chunks[k + 1].page_end

\* chunk k+1 starts with a sentence carried over from chunk k, and both its
\* page_start and the page of its new sentence are beyond page_start(k)
C29_Witness ==
    \E k \in 1..(Len(chunks) - 1) :
        /\ carried[k + 1] > 0
        /\ chunks[k].page_start < chunks[k].page_end
        /\ chunks[k].page_start < chunks[k + 1].page_start

\* ------------------------------------------------------------------------
\* Properties of the sentence segmentation
\* ------------------------------------------------------------------------
\* the characters of a text that are not whitespace
RECURSIVE NonSpace(_)
NonSpace(str) ==
    IF str = <<>> THEN <<>>
    ELSE (IF Head(str) = " " THEN <<>> ELSE <<Head(str)>>) \o NonSpace(Tail(str))

\* the texts of the sentences of page number pg, concatenated in output order
RECURSIVE TextOfPage(_, _)
TextOfPage(ss, pg) ==
    IF ss = <<>> THEN <<>>
    ELSE (IF Head(ss).page = pg THEN Head(ss).text ELSE <<>>)
         \o TextOfPage(Tail(ss), pg)

\* sent stands in text from position from on, and what follows it there is
\* whitespace or the end of the text
StandsAt(sent, text, from) ==
    /\ from + Len(sent) - 1 <= Len(text)
    /\ SubSeq(text, from, from + Len(sent) - 1) = sent
    /\ from + Len(sent) <= Len(text) => text[from + Len(sent)] = " "

\* C24: the (sentence, page) pairs follow page order and, within a page,
\* text order; a split happens only at whitespace that directly follows
\* '.', '!' or '?'; no sentence is empty or whitespace-only; every sentence
\* carries the number of the page its text came from, and text of two pages
\* is never merged into one sentence.
C24_Segmentation ==
    /\ \A i \in 1..(Len(sentences) - 1) :
          sentences[i].page <= sentences[i + 1].page
    /\ \A i \in 1..Len(sentences) :
          LET sent == sentences[i].text
              pg == sentences[i].page
          IN  /\ sent # <<>>
              /\ sent[1] # " " /\ sent[Len(sent)] # " "
              /\ pg \in 1..(si - 1)
              /\ \E from \in 1..Len(page_map[pg].text) :
                    StandsAt(sent, page_map[pg].text, from)
              /\ (i < Len(sentences) /\ sentences[i + 1].page = pg) =>
                    sent[Len(sent)] \in {".", "!", "?"}
    /\ \A pg \in 1..(si - 1) :
          NonSpace(TextOfPage(sentences, pg)) = NonSpace(page_map[pg].text)

\* two pages were segmented: the first was split into two sentences after a
\* mark, the second gives one more
C24_Witness ==
    /\ cpc = "segmented"
    /\ Len(page_map) = 2
    /\ Len(sentences) = 3
    /\ sentences[1].page = 1 /\ sentences[2].page = 1
    /\ sentences[3].page = 2
    /\ Len(page_map[1].text) > Len(sentences[1].text) + Len(sentences[2].text)

\* ------------------------------------------------------------------------
\* Progress of the chunk builder
\* ------------------------------------------------------------------------
\* what holds of the chunks at every step of the pass
ChunksProgress ==
    /\ \A k \in 1..Len(chunks) :
          /\ chunks[k].content # <<>>
          /\ Len(chunks[k].content) - carried[k] >= 1
    /\ Len(chunks) <= Len(sentences)
    /\ cpc = "loop" => Len(chunks) + (si - 1) <= 2 * Len(sentences)
    /\ cpc = "loop" => si \in 1..(Len(sentences) + 1)
    /\ cpc = "done" => si = Len(sentences) + 1
    /\ (cpc = "done" /\ sentences = <<>>) => chunks = <<>>

\* a run over a document without sentences: nothing to insert, 0 returned
EmptyIngest(r) ==
    ing[r].chunks = <<>> =>
        /\ ing[r].rows = <<>>
        /\ ing[r].error # "chunk_insert"
        /\ StoredChunks(r) = {}
        /\ ing[r].pc = "done" => ing[r].result = 0

\* C25: every produced chunk has non-empty content and at least one sentence
\* that was not carried over from the chunk before, so there are at most as
\* many chunks as sentences; the single pass consumes each sentence once and
\* terminates; an input with no sentence gives zero chunks, and
\* ingest_document then does no chunk insert and returns 0.
C25_Progress ==
    /\ []ChunksProgress
    /\ [][cpc = "loop" => (si' = si + 1 \/ (cpc' = "done" /\ si' = si))]_vars
    /\ (cpc = "loop") ~> (cpc = "done")
    /\ [](\A r \in Runs : EmptyIngest(r))

\* a finished pass in which every sentence became a chunk of its own
C25_Witness ==
    /\ cpc = "done"
    /\ Len(sentences) = MaxPass
    /\ Len(chunks) = MaxPass

\* a finished ingestion run over a document without sentences
C25_WitnessEmpty ==
    \E r \in Runs :
        ing[r].pc = "done" /\ ing[r].chunks = <<>> /\ ing[r].result = 0

\* ------------------------------------------------------------------------
\* The gate and the confidence label
\* ------------------------------------------------------------------------
\* C26: in both strategies and for every reranked set the gate says
\* GROUNDABLE exactly when the label is high or medium; in the semantic
\* strategy the max-score floor never changes the outcome (a set whose best
\* score is below 0.50 is already labelled low); every response that carries
\* the sentinel answer from the gate has confidence low.
C26_GateEqualsConfidence ==
    /\ gate # "none" =>
          /\ gate = "GROUNDABLE" <=> confidence \in {"high", "medium"}
          /\ gate = "UNGROUNDABLE" <=> confidence = "low"
          /\ (reranked # <<>> /\ BelowFloor(reranked, EMBEDDING_PROVIDER))
                => confidence = "low"
          /\ Ungroundable(reranked, confidence, EMBEDDING_PROVIDER)
                <=> confidence = "low"
    /\ (qpc = "done" /\ gate = "UNGROUNDABLE") =>
          /\ response[1].answer = NO_ANSWER
          /\ response[1].confidence = "low"

\* C26 witness: a semantic query whose best score is below the floor was
\* answered with the sentinel and confidence low.
C26_Witness ==
    /\ qpc = "done"
    /\ Semantic
    /\ reranked # <<>>
    /\ MaxScore(reranked) < WEAK_MATCH_SCORE_THRESHOLD
    /\ gate = "UNGROUNDABLE"
    /\ response[1].answer = NO_ANSWER
    /\ response[1].confidence = "low"

\* ------------------------------------------------------------------------
\* One strategy for ingestion and query
\* ------------------------------------------------------------------------
\* _retrieve_candidates takes the vector route under this setting
VectorRetrieval(provider) ==
    \E i \in DOMAIN RetrievalCalls(provider) :
        RetrievalCalls(provider)[i].op = "rpc match_knowledge_chunks"

\* _determine_confidence uses 0.75 and 0.50 under this setting
SemanticThresholds(provider) ==
    HighThreshold(provider) = 750 /\ MediumThreshold(provider) = 500

\* _is_weak_match applies the floor under this setting: a set whose only
\* score is 0 is below it
FloorApplied(provider) == BelowFloor(<<[chunk_id |-> 1]>>, provider)

\* C27: for every value of EMBEDDING_PROVIDER, ingestion attaches embeddings
\* to the chunk rows exactly when the query path retrieves by vector
\* similarity, and the thresholds and the floor of the query path belong to
\* that same strategy.
C27_StrategyConsistency ==
    /\ \A r \in Runs : \A k \in 1..Len(ing[r].rows) :
          ("embedding" \in DOMAIN ing[r].rows[k])
              <=> VectorRetrieval(EMBEDDING_PROVIDER)
    /\ (\E i \in 1..Len(calls) : calls[i].op = "rpc match_knowledge_chunks")
          => /\ SemanticThresholds(EMBEDDING_PROVIDER)
             /\ FloorApplied(EMBEDDING_PROVIDER)
    /\ (\E i \in 1..Len(calls) : calls[i].op = "rpc search_knowledge_chunks_fulltext")
          => /\ ~SemanticThresholds(EMBEDDING_PROVIDER)
             /\ ~FloorApplied(EMBEDDING_PROVIDER)

\* ------------------------------------------------------------------------
\* Failed queries
\* ------------------------------------------------------------------------
\* C28: when the question embedding, the retrieval call or the generation
\* call raises, process_query ends with that failure: the call that raised
\* is the last one and no call was issued twice (no retry), nothing is
\* returned, and no knowledge_queries row and no knowledge_query_chunks row
\* is written; rows are written only by a request that determined its answer
\* and returned.
C28_FailedQueriesLeaveNoLog ==
    /\ qpc = "failed" =>
          /\ calls # <<>>
          /\ calls[Len(calls)].raised
          /\ calls[Len(calls)].op \in
                {"embed_query", "chat_completion"} \cup RetrievalOps
          /\ \A i \in 1..(Len(calls) - 1) : ~calls[i].raised
          /\ \A i, j \in 1..Len(calls) : calls[i].op = calls[j].op => i = j
          /\ \A i \in 1..Len(calls) : calls[i].via # "admin"
          /\ knowledge_queries = <<>>
          /\ knowledge_query_chunks = <<>>
          /\ response = <<>>
          /\ ~ENABLED NextQuery
    /\ (knowledge_queries # <<>> \/ knowledge_query_chunks # <<>>) =>
          /\ qpc = "done"
          /\ gate \in {"GROUNDABLE", "UNGROUNDABLE"}
          /\ \A i \in 1..Len(knowledge_queries) :
                knowledge_queries[i].answer = answer

\* C28 witness: chat_completion raised after the gate let a non-empty set
\* through.
C28_Witness ==
    /\ qpc = "failed"
    /\ gate = "GROUNDABLE"
    /\ reranked # <<>>
    /\ calls[Len(calls)].op = "chat_completion"
    /\ calls[Len(calls)].raised

\* C28 witness of the other failure: the retrieval RPC raised after the
\* question was embedded.
C28_WitnessRetrieval ==
    /\ qpc = "failed"
    /\ Len(calls) = 2
    /\ calls[2].op = "rpc match_knowledge_chunks"
    /\ calls[2].raised

\* ------------------------------------------------------------------------
\* The upload lifecycle
\* ------------------------------------------------------------------------
\* ingest_document of request r raised
IngestionRaised(r) == uploads[r].pc = "ingest" /\ ing[r].pc = "failed"

\* what holds of a request at every step
UploadOrder(r) ==
    /\ uploads[r].status # "none" => uploads[r].stored
    /\ uploads[r].links # <<>> => uploads[r].status # "none"
    /\ ing[r].pc # "waiting" =>
          /\ uploads[r].pc = "ingest"
          /\ uploads[r].stored
          /\ uploads[r].status # "none"
          /\ uploads[r].links = uploads[r].collection_ids
    /\ ~RequestEnded(r) => uploads[r].status \in {"none", "draft"}
    /\ IngestionRaised(r) =>
          /\ uploads[r].stored
          /\ uploads[r].status # "none"
          /\ uploads[r].links = uploads[r].collection_ids
          /\ StoredChunks(r) = {}

\* a step that changes the status of document r is the insert of the record
\* as draft, an activation or an archival
StatusStep(r) ==
    uploads'[r].status # uploads[r].status =>
        \/ /\ uploads[r].status = "none"
           /\ uploads'[r].status = "draft"
           /\ UploadCreate(r)
        \/ uploads'[r].status = "active" /\ activate_document(r)
        \/ uploads'[r].status = "archived" /\ archive_document(r)

\* a step of the ingestion of document r leaves every request as it is, and
\* when it is the step that raises, the record of r is a draft
IngestStep(r) ==
    (ing[r].pc # "waiting" /\ ing'[r] # ing[r]) =>
        /\ uploads' = uploads
        /\ ing'[r].pc = "failed" => uploads[r].status = "draft"

C30_WitnessStatus ==
    \E r, q \in Runs :
        /\ IngestionRaised(r)
        /\ uploads[r].status = "active"
        /\ ing[q].pc = "done"
        /\ uploads[q].status = "archived"

====
